---------------------------- MODULE Spec2Model ----------------------------
(***************************************************************************)
(* A model of the midi-maker application: the PCM / WAV codec helpers,     *)
(* the PromptDjMidi component, the wiring done by main() in index.tsx and  *)
(* the streaming engine (LiveMusicHelper) that main() drives.              *)
(*                                                                         *)
(* The codec, the component and the wiring are translated from their       *)
(* TypeScript source.  utils/LiveMusicHelper and utils/throttle are        *)
(* imported by the sources but are not part of them; the engine is         *)
(* modelled from the design document (sections 4.2 - 4.6).                 *)
(***************************************************************************)
EXTENDS Integers, Sequences, FiniteSets, TLC

VARIABLES
    \* ---- codec harness (part_000) ----
    wavPcm,          \* createWavBlob: pcmData, a sequence of bytes
    wavChannels,     \* createWavBlob: numChannels
    wavRate,         \* createWavBlob: sampleRate
    wavBlob,         \* the bytes of the returned Blob, <<>> before the call
    floatIn,         \* createBlob: data, float samples as numerators over Scale * SubSteps
    pcmBytes,        \* the bytes of the Int16Array filled by createBlob
    decoded,         \* decodeAudioData: the channels of the AudioBuffer, <<>> before the call
    base64In,        \* decode: base64, a sequence of character classes
    decChannels,     \* decodeAudioData: numChannels
    decodeOutcome,   \* "" before any call, "decoded" once decode has returned, then
                     \* "returns" or the name of the exception decodeAudioData threw
    \* ---- loop extraction on a recorded buffer (design document, section 4.5) ----
    recPcm,          \* RecordingBuffer: the interleaved int16 samples recorded
    recChannels,     \* the session's channel count
    recRate,         \* the session's sample rate, in frames per second
    loopD,           \* extractLoop: durationSeconds
    loopOut,         \* the result of extractLoop, NoResult before the call
    \* ---- PromptDjMidi (components/PromptDjMidi.ts) and main() (index.tsx) ----
    prompts,           \* PromptDjMidi.prompts: promptId -> Prompt
    filteredPrompts,   \* PromptDjMidi.filteredPrompts
    initialPrompts,    \* main(): the Map built at line 570, as it reads now
    promptsAreInitial, \* this.prompts holds the Prompt objects of initialPrompts
    pdjPlaybackState,  \* PromptDjMidi.playbackState
    isDownloadable,    \* PromptDjMidi.isDownloadable
    isDownloadingLoop, \* PromptDjMidi.isDownloadingLoop
    toast,             \* the message last shown by toastMessage.show, "" when none
    downloads,         \* the file names handed to the browser by a.click(), in order
    \* ---- the streaming engine (design document, sections 4.2 - 4.6) ----
    session,           \* Stream Session state
    playbackState,     \* Playback State Machine
    now,               \* the audio clock
    nextStartTime,     \* Playback Scheduler, Unset before the first chunk of a session
    regions,           \* the ScheduledRegions of the session, in scheduling order
    recording,         \* RecordingBuffer: the chunks appended, in order
    latestSnapshot,    \* Weighted Control Channel: latest local snapshot
    lastSent,          \* Weighted Control Channel: last-sent snapshot, NoSnapshot when none
    throttleArmed,     \* a throttled push is scheduled
    pushes,            \* the number of control pushes sent to the session
    loopTasks,         \* the outstanding downloadLoop calls, each with its result
    \* ---- history kept for the properties ----
    arrivals,          \* the chunks that arrived in this session, in order
    resumedAt,         \* the clock at the last resume of this session, -1 when none
    mutations,         \* changes of the prompt state since the throttle was armed (capped)
    startupSnapshot,   \* the content of the map handed to setWeightedPrompts at line 581
    \* ---- MidiDispatcher (utils/MidiDispatcher) and the component's MIDI controls ----
    midiInputs,          \* the keys of MIDIAccess.inputs, in the order of the map
    access,              \* MidiDispatcher.access has been obtained
    activeMidiInputId,   \* MidiDispatcher.activeMidiInputId
    midiInputIds,        \* PromptDjMidi.midiInputIds
    pdjActiveMidiInputId, \* PromptDjMidi.activeMidiInputId
    showMidi,            \* PromptDjMidi.showMidi
    lastMidi,            \* history: the last MIDI message delivered, <<>> when none
    lastCc,              \* history: the cc-message events dispatched for it
    \* ---- buildInitialPrompts (index.tsx) and buildPromptsForStyle on a style ----
    styleIn,             \* the prompts of the style handed over, as their texts
    shuffled,            \* history: the order the random sort produced, <<>> before the call
    built,               \* the map returned, <<>> before the call
    \* ---- utils/i18n.ts ----
    translations,        \* the language whose file is loaded in translations, "" for {}
    docLang,             \* document.documentElement.lang
    langCalls,           \* the setLanguage calls made from outside, in the order issued
    \* ---- the audio analyser and components/AudioVisualizer.ts ----
    analyserRunning,     \* audioAnalyser: start() was the last of start() / stop() called
    isPlaying,           \* AudioVisualizer.isPlaying
    pendingFrames,       \* the draw callbacks handed to requestAnimationFrame and not yet run
    stateEvents,         \* history: the details of the playback-state-changed events
    \* ---- PromptDjMidi.updatePromptsFromAnalysis ----
    analysisIn,          \* result.prompts of the analysis response
    analysisDone         \* updatePromptsFromAnalysis has run on it

extractVars == <<recPcm, recChannels, recRate, loopD, loopOut>>

pureVars == <<wavPcm, wavChannels, wavRate, wavBlob, floatIn, pcmBytes, decoded,
              base64In, decChannels, decodeOutcome, extractVars>>

midiVars == <<midiInputs, access, activeMidiInputId, midiInputIds, pdjActiveMidiInputId,
              showMidi, lastMidi, lastCc>>

buildVars == <<styleIn, shuffled, built>>

langVars == <<translations, docLang, langCalls>>

vizVars == <<analyserRunning, isPlaying, pendingFrames, stateEvents>>

analysisVars == <<analysisIn, analysisDone>>

sideVars == <<midiVars, buildVars, langVars, vizVars, analysisVars>>

\* what the actions of one group of controls leave alone outside their own group
besidesMidi == <<pureVars, buildVars, langVars, vizVars, analysisVars>>

besidesBuild == <<pureVars, midiVars, langVars, vizVars, analysisVars>>

besidesLang == <<pureVars, midiVars, buildVars, vizVars, analysisVars>>

besidesViz == <<pureVars, midiVars, buildVars, langVars, analysisVars>>

besidesAnalysis == <<pureVars, midiVars, buildVars, langVars, vizVars>>

codecVars == <<pureVars, sideVars>>

aliasVars == <<initialPrompts, promptsAreInitial, startupSnapshot>>

uiVars == <<prompts, filteredPrompts, aliasVars, pdjPlaybackState, isDownloadable, isDownloadingLoop, toast, downloads>>

schedVars == <<now, nextStartTime, regions, recording, arrivals, resumedAt>>

controlVars == <<latestSnapshot, lastSent, throttleArmed, pushes, mutations>>

engineVars == <<session, playbackState, schedVars, controlVars, loopTasks>>

vars == <<codecVars, uiVars, engineVars>>

-----------------------------------------------------------------------------
(* Bounds of the model *)

\* longest PCM payload handed to createWavBlob
MaxPcmLen == 3
\* longest Float32Array handed to createBlob
MaxFloats == 2
\* float samples are multiples of 1 / (Scale * SubSteps)
SubSteps == 4
\* how many grid points next to -1, 0 and 1 are drawn as samples
EdgeWidth == 9
\* the audio clock stops advancing here
MaxTime == 4
\* chunks received per session
MaxChunks == 3
\* control pushes after which the prompts are no longer edited
MaxPushes == 2
\* the count of mutations in one throttle interval saturates here
MutationCap == 2
\* downloadLoop calls that may be outstanding before requests are no longer made
MaxLoopTasks == 2
\* files downloaded before loop downloads are no longer requested
MaxDownloads == 2

-----------------------------------------------------------------------------
(* Generic helpers *)

Abs(x) == IF x < 0 THEN -x ELSE x

Max(a, b) == IF a >= b THEN a ELSE b

\* all sequences over S of length lo..hi
SeqsOf(S, lo, hi) == UNION {[1..n -> S] : n \in lo..hi}

-----------------------------------------------------------------------------
(* part_000: the codec *)

\* Number -> integer, truncating toward zero (the first step of ToInt16 / ToUint32);
\* the number is num / den with den > 0
TruncDiv(num, den) == IF num >= 0 THEN num \div den ELSE -((-num) \div den)

\* Int16Array element store: truncate, wrap modulo 2^16, read back as signed
ToInt16Clamped(num, den) ==
    LET k == TruncDiv(num, den)
    IN  IF k > 32767 THEN 32767 ELSE IF k < -32768 THEN -32768 ELSE k

ToInt16(num, den) ==
    LET m == TruncDiv(num, den) % 65536
    IN  IF m >= 32768 THEN m - 65536 ELSE m

\* createBlob line 33: int16[i] = data[i] * 32768
Scale == 32768

\* the two bytes of an int16 in the buffer (typed arrays are little-endian here)
Int16Bytes(q) ==
    LET u == q % 65536
    IN  <<u % 256, u \div 256>>

\* new Int16Array(data.buffer): the int16 at index i (1-based) of a byte buffer
Int16At(bytes, i) ==
    LET u == bytes[2 * i - 1] + 256 * bytes[2 * i]
    IN  IF u >= 32768 THEN u - 65536 ELSE u

RECURSIVE FlattenBytes(_)
FlattenBytes(int16s) ==
    IF int16s = <<>> THEN <<>>
    ELSE Int16Bytes(Head(int16s)) \o FlattenBytes(Tail(int16s))

\* createBlob: the bytes of int16.buffer.  A float sample is data[i] / (Scale * SubSteps),
\* so that data[i] * 32768 of line 33 is the number data[i] / SubSteps.
createBlob(data) ==
    FlattenBytes([i \in 1..Len(data) |-> ToInt16(data[i], SubSteps)])

\* dataFloat32.filter((_, index) => index % numChannels === i), indices 0-based
RECURSIVE FilterChannel(_, _, _, _)
FilterChannel(samples, numChannels, ch, index) ==
    IF index > Len(samples) THEN <<>>
    ELSE IF (index - 1) % numChannels = ch
         THEN <<samples[index]>> \o FilterChannel(samples, numChannels, ch, index + 1)
         ELSE FilterChannel(samples, numChannels, ch, index + 1)

\* A character of a base64 text is modelled by its class: the sextet 0..63 of an
\* alphabet character, Pad for '=', and Illegal for any other character
Pad == 64

Illegal == 65

\* encode: btoa of the bytes
RECURSIVE encode(_)
encode(bytes) ==
    IF Len(bytes) = 0 THEN <<>>
    ELSE IF Len(bytes) = 1
         THEN <<bytes[1] \div 4, (bytes[1] % 4) * 16, Pad, Pad>>
    ELSE IF Len(bytes) = 2
         THEN <<bytes[1] \div 4, (bytes[1] % 4) * 16 + bytes[2] \div 16,
                (bytes[2] % 16) * 4, Pad>>
    ELSE <<bytes[1] \div 4, (bytes[1] % 4) * 16 + bytes[2] \div 16,
           (bytes[2] % 16) * 4 + bytes[3] \div 64, bytes[3] % 64>>
         \o encode(SubSeq(bytes, 4, Len(bytes)))

\* atob, step 2: a text whose length is a multiple of 4 loses one or two final '='
StripPadding(text) ==
    LET n == Len(text)
    IN  IF n > 0 /\ n % 4 = 0 /\ text[n] = Pad
        THEN IF text[n - 1] = Pad THEN SubSeq(text, 1, n - 2) ELSE SubSeq(text, 1, n - 1)
        ELSE text

\* atob, step 5: the bytes of a text of sextets; the bits left over at the end
\* are dropped
RECURSIVE DecodeSextets(_)
DecodeSextets(sx) ==
    IF Len(sx) < 2 THEN <<>>
    ELSE IF Len(sx) = 2 THEN <<sx[1] * 4 + sx[2] \div 16>>
    ELSE IF Len(sx) = 3
         THEN <<sx[1] * 4 + sx[2] \div 16, (sx[2] % 16) * 16 + sx[3] \div 4>>
    ELSE <<sx[1] * 4 + sx[2] \div 16, (sx[2] % 16) * 16 + sx[3] \div 4,
           (sx[3] % 4) * 64 + sx[4]>>
         \o DecodeSextets(SubSeq(sx, 5, Len(sx)))

\* atob: the binary string, or the exception it throws
atob(text) ==
    LET data == StripPadding(text)
    IN  IF Len(data) % 4 = 1 \/ \E i \in 1..Len(data) : data[i] \notin 0..63
        THEN [outcome |-> "InvalidCharacterError", bytes |-> <<>>]
        ELSE [outcome |-> "decoded", bytes |-> DecodeSextets(data)]

\* decode: atob, then one byte per character of the binary string
decode(base64) == atob(base64)

\* ctx.createBuffer(numChannels, length, sampleRate): the frame count as the call
\* receives it.  data.length / 2 / numChannels is converted to unsigned long: the
\* fraction is dropped, and Infinity and NaN (numChannels = 0) become 0
FrameCount(dataLength, numChannels) ==
    IF numChannels = 0 THEN 0 ELSE dataLength \div (2 * numChannels)

\* createBuffer throws NotSupportedError unless 1 <= numberOfChannels <= 32 and length >= 1
MaxBufferChannels == 32

createBufferThrows(numChannels, length) ==
    numChannels < 1 \/ numChannels > MaxBufferChannels \/ length < 1

\* buffer.copyToChannel(source, i): the channel of `length` frames after the copy;
\* min(length, source.length) frames are copied, the others keep their initial 0
copyToChannel(source, length) ==
    [j \in 1..length |-> IF j <= Len(source) THEN source[j] ELSE 0]

\* decodeAudioData: the outcome of the call and the channels of the AudioBuffer it
\* returns; a decoded sample is the int16 q standing for the float q / 32768
decodeAudioData(data, numChannels) ==
    LET length == FrameCount(Len(data), numChannels)
    IN  IF createBufferThrows(numChannels, length)
        THEN [outcome |-> "NotSupportedError", channels |-> <<>>]
        \* new Int16Array(data.buffer) needs a byte length that is a multiple of 2
        ELSE IF Len(data) % 2 # 0
        THEN [outcome |-> "RangeError", channels |-> <<>>]
        ELSE LET l      == Len(data) \div 2
                 int16s == [i \in 1..l |-> Int16At(data, i)]
             IN  [outcome  |-> "returns",
                  channels |->
                     IF numChannels = 0
                     THEN <<copyToChannel(int16s, length)>>
                     ELSE [c \in 1..numChannels |->
                             copyToChannel(FilterChannel(int16s, numChannels, c - 1, 1),
                                           length)]]

\* DataView.setUint8
setUint8(view, offset, v) == [view EXCEPT ![offset + 1] = v % 256]

\* DataView.setUint16(offset, v, true)
setUint16(view, offset, v) ==
    LET u == v % 65536
    IN  [view EXCEPT ![offset + 1] = u % 256, ![offset + 2] = u \div 256]

\* DataView.setUint32(offset, v, true).  ToUint32 is the identity on 0 .. 2^31 - 1,
\* which holds every value the model writes.
setUint32BE(view, offset, v) ==
    LET u == v
    IN  [view EXCEPT ![offset + 1] = u \div 16777216,
                     ![offset + 2] = (u \div 65536) % 256,
                     ![offset + 3] = (u \div 256) % 256,
                     ![offset + 4] = u % 256]

setUint32(view, offset, v) ==
    LET u == v
    IN  [view EXCEPT ![offset + 1] = u % 256,
                     ![offset + 2] = (u \div 256) % 256,
                     ![offset + 3] = (u \div 65536) % 256,
                     ![offset + 4] = u \div 16777216]

\* writeString: one setUint8 per character code
RECURSIVE writeString(_, _, _)
writeString(view, offset, str) ==
    IF str = <<>> THEN view
    ELSE writeString(setUint8(view, offset, Head(str)), offset + 1, Tail(str))

\* the character codes of the four chunk tags
StrRIFF == <<82, 73, 70, 70>>
StrWAVE == <<87, 65, 86, 69>>
StrFmt  == <<102, 109, 116, 32>>
StrData == <<100, 97, 116, 97>>

\* createWavBlob: the bytes of new Blob([view, pcmData])
createWavBlob(pcmData, numChannels, sampleRate) ==
    LET bitDepth       == 16
        bytesPerSample == bitDepth \div 8
        blockAlign     == numChannels * bytesPerSample
        byteRate       == sampleRate * blockAlign
        dataSize       == Len(pcmData)
        fileSize       == 36 + dataSize
        v0  == [i \in 1..44 |-> 0]
        v1  == writeString(v0, 0, StrRIFF)
        v2  == setUint32(v1, 4, fileSize)
        v3  == writeString(v2, 8, StrWAVE)
        v4  == writeString(v3, 12, StrFmt)
        v5  == setUint32(v4, 16, 16)
        v6  == setUint16(v5, 20, 1)
        v7  == setUint16(v6, 22, numChannels)
        v8  == setUint32(v7, 24, sampleRate)
        v9  == setUint32(v8, 28, byteRate)
        v10 == setUint16(v9, 32, blockAlign)
        v11 == setUint16(v10, 34, bitDepth)
        v12 == writeString(v11, 36, StrData)
        v13 == setUint32(v12, 40, dataSize)
    IN  v13 \o pcmData

-----------------------------------------------------------------------------
(* types.ts, utils/i18n.ts, index.tsx: data *)

PlaybackStates == {"stopped", "playing", "loading", "paused"}

\* STYLES[0].prompts, cut to its first three entries (the colours are never read
\* by the code modelled here and are left out)
DefaultPrompts ==
    <<"prompt_cozy_village_theme", "prompt_2d_exploration", "prompt_quiet_puzzle_music">>

\* STYLES[1].prompts, cut in the same way
CinematicPrompts ==
    <<"prompt_epic_strings_section", "prompt_triumphant_brass_fanfare",
      "prompt_delicate_woodwinds">>

\* STYLES, cut to its first two styles
STYLES == <<DefaultPrompts, CinematicPrompts>>

\* `prompt-${i}`
PromptIdOf ==
    <<"prompt-0", "prompt-1", "prompt-2", "prompt-3", "prompt-4", "prompt-5", "prompt-6",
      "prompt-7", "prompt-8", "prompt-9", "prompt-10", "prompt-11", "prompt-12",
      "prompt-13", "prompt-14", "prompt-15", "prompt-16", "prompt-17">>

PromptIds == {PromptIdOf[i] : i \in 1..Len(DefaultPrompts)}

\* /locales/en.json restricted to the prompt keys: keyToEnglish of main()
EnglishOf ==
    [k \in {STYLES[n][i] : n \in 1..Len(STYLES), i \in 1..Len(DefaultPrompts)} |->
        CASE k = "prompt_cozy_village_theme"       -> "Cozy Village Theme"
          [] k = "prompt_2d_exploration"           -> "2D Exploration"
          [] k = "prompt_quiet_puzzle_music"       -> "Quiet Puzzle Music"
          [] k = "prompt_epic_strings_section"     -> "Epic Strings Section"
          [] k = "prompt_triumphant_brass_fanfare" -> "Triumphant Brass Fanfare"
          [] OTHER                                 -> "Delicate Woodwinds"]

\* keyToEnglish.get(p.text) || p.text
keyToEnglish(text) == IF text \in DOMAIN EnglishOf THEN EnglishOf[text] ELSE text

\* englishToKey.get(text) || text
englishToKey(text) ==
    IF \E k \in DOMAIN EnglishOf : EnglishOf[k] = text
    THEN CHOOSE k \in DOMAIN EnglishOf : EnglishOf[k] = text
    ELSE text

\* t(key) with the English translations loaded: translations[key] || key
t(key) == IF key \in DOMAIN EnglishOf THEN EnglishOf[key] ELSE key

\* the weights a prompt controller reports
Weights == {0, 1}

\* a text typed into a prompt controller
CustomTexts == {"my own prompt"}

\* liveMusicHelper.downloadLoop(20)
LoopSeconds == 20

\* buildInitialPrompts: startOn is the set of (1-based) indices that the random
\* sort puts first
buildInitialPrompts(defaultPrompts, startOn) ==
    [id \in {PromptIdOf[i] : i \in 1..Len(defaultPrompts)} |->
        LET i == CHOOSE j \in 1..Len(defaultPrompts) : PromptIdOf[j] = id
        IN  [promptId |-> id,
             text     |-> defaultPrompts[i],
             weight   |-> IF i \in startOn THEN 1 ELSE 0,
             cc       |-> i - 1]]

\* [...defaultPrompts].sort(() => Math.random() - 0.5).slice(0, 3): any three entries
StartOnChoices(defaultPrompts) ==
    {S \in SUBSET (1..Len(defaultPrompts)) :
        Cardinality(S) = IF Len(defaultPrompts) < 3 THEN Len(defaultPrompts) ELSE 3}

\* the orders [...defaultPrompts].sort(() => Math.random() - 0.5) can produce: the
\* permutations of the indices 1..n
SortOrders(n) == {f \in [1..n -> 1..n] : \A i, j \in 1..n : f[i] = f[j] => i = j}

\* .slice(0, 3) of the sorted copy, as the set of the indices it holds
sliceFirstTwo(order) == {order[i] : i \in 1..(IF Len(order) < 2 THEN Len(order) ELSE 2)}

sliceFirstThree(order) == {order[i] : i \in 1..(IF Len(order) < 3 THEN Len(order) ELSE 3)}

-----------------------------------------------------------------------------
(* The streaming engine: Stream Session, Playback Scheduler, Recorder, Weighted   *)
(* Control Channel and Playback State Machine of the design document              *)

SessionStates == {"idle", "connecting", "connected", "closed", "errored"}

Unset == -1

NoSnapshot == <<>>

\* fixed pre-roll added to now() on the first chunk of a session (4.4)
PreRoll == 1

\* accumulated duration at which recording-available is signalled (4.6)
RecordingAvailableThreshold == 4

\* the durations of the chunks the session delivers, in clock ticks (seconds)
ChunkDurations == {2, 10}

\* 4.4 step 1: the start of the region of an arriving chunk
ScheduleStart(nst, clock) == Max(nst, clock)

\* 4.4 step 2: nextStartTime += d
AdvanceNextStart(nst, d) == nst + d

\* 4.4: nextStartTime is initialised to now + pre-roll on the first chunk of a session
NextStartBase(nst, clock) == IF nst = Unset THEN clock + PreRoll ELSE nst

\* 4.4 / 4.5: is an arriving chunk handed to the Scheduler in this playback state?
\* (pause: no new regions are scheduled)
SchedulesInAlways(state) == TRUE

SchedulesIn(state) == state # "paused"

\* 4.5 Append: every chunk, regardless of live playback state
RecordsIn(state) == TRUE

\* 4.4: the regions after the arriving chunk has been scheduled; underrun delays
\* the start, the chunk is never dropped
ScheduleRegionDropOnUnderrun(rs, seq, nst, clock, d, since) ==
    IF nst < clock THEN rs
    ELSE Append(rs, [seq |-> seq, start |-> nst, end |-> nst + d, since |-> since])

ScheduleRegion(rs, seq, nst, clock, d, since) ==
    LET start == ScheduleStart(nst, clock)
    IN  Append(rs, [seq |-> seq, start |-> start, end |-> start + d, since |-> since])

\* 4.4: Stop cancels all not-yet-started scheduled regions
CancelPending(rs, clock) == SelectSeq(rs, LAMBDA r : r.start <= clock)

RECURSIVE SumDurations(_)
SumDurations(chunks) ==
    IF chunks = <<>> THEN 0 ELSE Head(chunks).dur + SumDurations(Tail(chunks))

\* the recorded duration of the RecordingBuffer
RecordedDuration(buf) == SumDurations(buf)

\* 4.6: the playback state after a play / pause request in each state: stopped and
\* paused play, playing pauses, and a request while the session is still being
\* set up stops it
PlayPauseTarget(state) ==
    CASE state = "stopped" -> "loading"
      [] state = "paused"  -> "playing"
      [] state = "playing" -> "paused"
      [] OTHER             -> "stopped"

\* 4.6: does the RecordingBuffer survive a play / pause request made in this state?
\* It is cleared at the stop and new-session boundaries only.
KeepsRecordingNever(state) == FALSE

KeepsRecording(state) == state \in {"playing", "paused"}

\* 4.5 extractLoop(d) on the buffer as it is when called: InsufficientAudio, or the
\* container of the tail window of d seconds
extractLoop(buf, d) ==
    IF RecordedDuration(buf) < d
    THEN [kind |-> "InsufficientAudio", seconds |-> 0]
    ELSE [kind |-> "blob", seconds |-> d]

\* 4.5: the crossfade overlap, in frames (a short design value)
CrossfadeFrames == 2

\* 4.5: the most recent n frames of the interleaved samples
HeadWindow(samples, channels, n) == SubSeq(samples, 1, n * channels)

TailWindow(samples, channels, n) ==
    SubSeq(samples, Len(samples) - n * channels + 1, Len(samples))

\* 4.5: output = start * fadeIn + end * fadeOut at step i of an overlap of L frames,
\* with fadeIn = i / L and fadeOut = 1 - fadeIn, stored as an int16
Blend(start, end, i, L) == TruncDiv(start * i + end * (L - i), L)

\* 4.5: the window with its end blended back into its start over the overlap; the
\* design does not say at which side of the window the blended frames are written,
\* seam is either
Crossfade(window, channels, L, seam) ==
    LET N     == Len(window) \div channels
        shift == (N - L) * channels
    IN  [s \in 1..Len(window) |->
            LET i == (s - 1) \div channels
            IN  IF seam = "head" /\ i < L
                THEN Blend(window[s], window[s + shift], i, L)
                ELSE IF seam = "tail" /\ i >= N - L
                THEN Blend(window[s - shift], window[s], i - (N - L), L)
                ELSE window[s]]

\* 4.5 extractLoop(durationSeconds) on the recorded samples: InsufficientAudio, or
\* the muxed container of the crossfaded tail window
extractLoopContainer(samples, channels, sampleRate, d, seam) ==
    LET n == d * sampleRate
    IN  IF Len(samples) \div channels < n
        THEN [kind |-> "InsufficientAudio", blob |-> <<>>]
        ELSE [kind |-> "blob",
              blob |-> createWavBlob(
                          FlattenBytes(Crossfade(TailWindow(samples, channels, n),
                                                 channels, CrossfadeFrames, seam)),
                          channels, sampleRate)]

\* 4.5 getRecording(): muxWav(entire buffer), or a "no data" result if the buffer
\* is empty
getRecordedAudioBlob(buf) ==
    IF buf = <<>>
    THEN [kind |-> "none", seconds |-> 0]
    ELSE [kind |-> "blob", seconds |-> RecordedDuration(buf)]

\* how a failed extraction reaches the caller of downloadLoop: the promise rejects
\* or resolves to no blob (index.tsx handles both)
FailureDeliveries == {"rejects", "null"}

\* 4.2: a push is sent only when the latest snapshot differs from the last sent one
PushNeeded(latest, sent) == latest # sent

-----------------------------------------------------------------------------
(* utils/MidiDispatcher *)

\* activeMidiInputId: string | null
Null == "null"

\* the ids of the MIDI inputs that can be attached
MidiIds == {"input-0", "input-1"}

\* data[i] for an index outside the array
Undefined == -1

\* event.data === null
NoData == <<Undefined>>

\* data[i], i counted from 0
ByteAt(data, i) == IF i < Len(data) THEN data[i + 1] ELSE Undefined

\* b & 0x0f and b & 0xf0, for a byte or undefined (undefined converts to 0)
BitAnd0f(b) == IF b = Undefined THEN 0 ELSE b % 16

BitAndf0(b) == IF b = Undefined THEN 0 ELSE b - (b % 16)

ElementsOf(ids) == {ids[i] : i \in 1..Len(ids)}

\* a non-empty, non-null id
Truthy(id) == id # Null /\ id # ""

\* onMidiMessage, lines 12-33: the cc-message events dispatched for a message
\* coming from input inputId, <<>> when none
onMidiMessageAnyInput(inputId, data, active) ==
    IF data = NoData THEN <<>>
    ELSE IF BitAndf0(ByteAt(data, 0)) # 176 THEN <<>>
    ELSE <<[cc |-> ByteAt(data, 1), value |-> ByteAt(data, 2),
            channel |-> BitAnd0f(ByteAt(data, 0))]>>

onMidiMessage(inputId, data, active) ==
    IF inputId # active THEN <<>>
    ELSE IF data = NoData THEN <<>>
    ELSE LET statusByte == ByteAt(data, 0)
             channel == BitAnd0f(statusByte)
             messageType == BitAndf0(statusByte)
             isControlChange == messageType = 176
         IN  IF ~isControlChange THEN <<>>
             ELSE <<[cc |-> ByteAt(data, 1), value |-> ByteAt(data, 2),
                     channel |-> channel]>>

\* onStateChange, lines 38-41: activeMidiInputId after a change of the inputs
onStateChange(active, inputIds) ==
    IF Truthy(active) /\ active \notin ElementsOf(inputIds)
    THEN IF Len(inputIds) > 0 THEN inputIds[1] ELSE Null
    ELSE active

\* getMidiAccess, lines 72-76: activeMidiInputId once access has been granted
getMidiAccess(active, inputIds) ==
    IF Len(inputIds) > 0 /\ active = Null THEN inputIds[1] ELSE active

\* how navigator.requestMIDIAccess ends, as the message of the error thrown
AccessOutcomes == {"granted", "unsupportedMidiError", "midiAccessError"}

-----------------------------------------------------------------------------
(* components/PromptDjMidi.ts and index.tsx: handlers *)

\* index.tsx 608-613, the part that writes the component: pdjMidi.playbackState = detail
OnPlaybackStateChangedStuck(detail) == IF detail = "loading" THEN "playing" ELSE detail

OnPlaybackStateChanged(detail) == detail

\* index.tsx 670-677, errorToast: the message handed to toastMessage.show
errorToastSilent(errorKey) == ""

errorToast(errorKey) == t(errorKey)

\* index.tsx 600-606: the play-pause listener's write of isDownloadable
OnPlayPauseDownloadableAlways(uiState, downloadable) == FALSE

OnPlayPauseDownloadable(uiState, downloadable) ==
    IF uiState = "stopped" \/ uiState = "paused" THEN FALSE ELSE downloadable

\* index.tsx 586-598: the map handed to setWeightedPrompts by the prompts-changed listener
EnglishPromptsStale(ps) == [id \in DOMAIN ps |-> [ps[id] EXCEPT !.weight = 0]]

EnglishPrompts(ps) ==
    [id \in DOMAIN ps |-> [ps[id] EXCEPT !.text = keyToEnglish(ps[id].text)]]

\* PromptDjMidi.handlePromptChanged, lines 610-636: the new this.prompts
PromptsAfterChange(ps, promptId, text, weight, cc) ==
    LET prompt == ps[promptId]
        currentTranslatedText == t(prompt.text)
        newText == IF text # currentTranslatedText THEN text ELSE prompt.text
    IN  [ps EXCEPT ![promptId] = [prompt EXCEPT !.text = newText,
                                                !.weight = weight,
                                                !.cc = cc]]

\* PromptDjMidi.buildPromptsForStyle, lines 700-720: the same construction as
\* buildInitialPrompts
buildPromptsForStyle(stylePrompts, startOn) == buildInitialPrompts(stylePrompts, startOn)

\* the weight 0.5 + Math.random() of randomizePrompts, line 765
RandomWeights == {1}

\* Math.floor(Math.random() * 3) + 2, line 757
NumToActivate == {2, 3, 4}

\* PromptDjMidi.randomizePrompts, lines 748-766: every weight is set to 0, then the
\* prompts of `chosen` get the weight w
PromptsAfterRandomize(ps, chosen, w) ==
    [id \in DOMAIN ps |-> [ps[id] EXCEPT !.weight = IF id \in chosen THEN w ELSE 0]]

\* the sets .slice(0, n) can return after the shuffle of line 759
ActivationChoices(ps, n) ==
    {S \in SUBSET (DOMAIN ps) :
        Cardinality(S) = IF Cardinality(DOMAIN ps) < n THEN Cardinality(DOMAIN ps) ELSE n}

\* What a Map reads as after the component has written to its Prompt objects.
\* The constructor keeps initialPrompts itself (line 572), handlePromptChanged and
\* randomizePrompts assign to the fields of the Prompt objects of this.prompts
\* (lines 626-630, 753, 765) and new Map(this.prompts) copies the Map, not the
\* objects: a Map sharing those objects reads as this.prompts does.
ObjectsSeenThrough(map, shared, ps) == IF shared THEN ps ELSE map

\* PromptDjMidi.addFilteredPrompt, lines 783-785: the new this.filteredPrompts
addFilteredPromptReplacing(filtered, promptKey) == {promptKey}

addFilteredPrompt(filtered, promptKey) == filtered \cup {promptKey}

\* the filteredReason of a filtered-prompt signal
FilterReasons == {"Prompt was filtered"}

\* index.tsx 620-624: does the download-requested listener go on to download?
\* (if (!blob) it shows noAudioRecorded and returns)
DownloadResultDownloadsAlways(blob) == TRUE

DownloadResultDownloads(blob) == blob.kind # "none"

\* PromptDjMidi.requestLoopDownload line 924: the early return
LoopRequestRejectedNever(downloading) == FALSE

LoopRequestRejected(downloading) == downloading

\* index.tsx 640-655: what the loop-download listener does with a settled downloadLoop
LoopResultDownloadsAlways(result) == TRUE

LoopResultDownloads(result) == result.kind = "blob" /\ result.delivery = "resolves"

\* index.tsx 656-658 and PromptDjMidi.finishLoopDownload (932-934): isDownloadingLoop
\* once the listener has left its try statement; the finally block runs on the
\* blob, no-blob and exception paths alike
DownloadingAfterSettleNoFinally(result) == ~LoopResultDownloads(result)

DownloadingAfterSettle(result) == FALSE

-----------------------------------------------------------------------------
(* The application: state after main() has run, and one action per handler *)

AppInit ==
    /\ \E startOn \in StartOnChoices(DefaultPrompts) :
          /\ prompts = buildInitialPrompts(DefaultPrompts, startOn)
          /\ initialPrompts = buildInitialPrompts(DefaultPrompts, startOn)
          /\ startupSnapshot = buildInitialPrompts(DefaultPrompts, startOn)
          \* index.tsx 581: liveMusicHelper.setWeightedPrompts(initialPrompts)
          /\ latestSnapshot = buildInitialPrompts(DefaultPrompts, startOn)
    /\ filteredPrompts = {}
    /\ promptsAreInitial = TRUE
    /\ pdjPlaybackState = "stopped"
    /\ isDownloadable = FALSE
    /\ isDownloadingLoop = FALSE
    /\ toast = ""
    /\ downloads = <<>>
    /\ session = "idle"
    /\ playbackState = "stopped"
    /\ now = 0
    /\ nextStartTime = Unset
    /\ regions = <<>>
    /\ recording = <<>>
    /\ lastSent = NoSnapshot
    /\ throttleArmed = TRUE
    /\ pushes = 0
    /\ loopTasks = <<>>
    /\ arrivals = <<>>
    /\ resumedAt = -1
    /\ mutations = 0

\* the play / pause button: PromptDjMidi.playPause dispatches play-pause, the
\* listener of index.tsx 600-606 runs, liveMusicHelper.playPause() changes the
\* playback state and the playback-state-changed listener (608-613) runs
PlayPause ==
    LET target == PlayPauseTarget(playbackState)
    IN  /\ isDownloadable' = OnPlayPauseDownloadable(pdjPlaybackState, isDownloadable)
        /\ playbackState' = target
        /\ pdjPlaybackState' = OnPlaybackStateChanged(target)
        /\ recording' = IF KeepsRecording(playbackState) THEN recording ELSE <<>>
        /\ CASE playbackState = "stopped" ->
                  \* play: a new session is opened
                  /\ session' = "connecting"
                  /\ nextStartTime' = Unset
                  /\ regions' = <<>>
                  /\ arrivals' = <<>>
                  /\ resumedAt' = -1
                  /\ UNCHANGED <<now, controlVars>>
             [] playbackState = "paused" ->
                  \* resume: scheduling is re-armed from now()
                  /\ nextStartTime' = now
                  /\ resumedAt' = now
                  /\ UNCHANGED <<session, now, regions, arrivals, controlVars>>
             [] playbackState = "playing" ->
                  \* pause: the session keeps streaming
                  /\ UNCHANGED <<session, now, nextStartTime, regions, arrivals,
                                 resumedAt, controlVars>>
             [] OTHER ->
                  \* stop: disconnect, cancel pending regions and the in-flight push
                  /\ session' = "idle"
                  /\ nextStartTime' = Unset
                  /\ regions' = CancelPending(regions, now)
                  /\ throttleArmed' = FALSE
                  /\ mutations' = 0
                  /\ UNCHANGED <<now, arrivals, resumedAt, latestSnapshot, lastSent, pushes>>
        /\ UNCHANGED <<codecVars, aliasVars, filteredPrompts, prompts, isDownloadingLoop, toast, downloads, loopTasks>>

\* connect() completes
SessionOpened ==
    /\ session = "connecting"
    /\ session' = "connected"
    /\ UNCHANGED <<codecVars, uiVars, playbackState, schedVars, controlVars, loopTasks>>

\* one chunk message arrives on the connected session: it is appended to the
\* RecordingBuffer, scheduled unless playback is paused, the first scheduled chunk
\* of a session turns loading into playing, and recording-available is signalled
\* when the recorded duration first crosses the threshold (listener 615-617)
ChunkArrives(d) ==
    /\ session = "connected"
    /\ Len(arrivals) < MaxChunks
    /\ LET seq   == Len(arrivals) + 1
           chunk == [seq |-> seq, dur |-> d]
           base  == NextStartBase(nextStartTime, now)
           state == IF playbackState = "loading" THEN "playing" ELSE playbackState
       IN  /\ arrivals' = Append(arrivals, [seq |-> seq, dur |-> d,
                                            live |-> playbackState # "paused"])
           /\ recording' = IF RecordsIn(playbackState) THEN Append(recording, chunk)
                           ELSE recording
           /\ IF SchedulesIn(playbackState)
              THEN /\ regions' = ScheduleRegion(regions, seq, base, now, d, resumedAt)
                   /\ nextStartTime' = AdvanceNextStart(base, d)
                   /\ playbackState' = state
                   /\ pdjPlaybackState' = IF state # playbackState
                                          THEN OnPlaybackStateChanged(state)
                                          ELSE pdjPlaybackState
              ELSE UNCHANGED <<regions, nextStartTime, playbackState, pdjPlaybackState>>
           /\ isDownloadable' =
                 IF /\ RecordedDuration(recording) < RecordingAvailableThreshold
                    /\ RecordedDuration(recording') >= RecordingAvailableThreshold
                 THEN TRUE ELSE isDownloadable
    /\ UNCHANGED <<codecVars, aliasVars, filteredPrompts, prompts, isDownloadingLoop, toast, downloads,
                   session, now, resumedAt, controlVars, loopTasks>>

\* the audio clock advances
Tick ==
    /\ now < MaxTime
    /\ now' = now + 1
    /\ UNCHANGED <<codecVars, uiVars, session, playbackState, nextStartTime, regions,
                   recording, arrivals, resumedAt, controlVars, loopTasks>>

\* transport error or unexpected close: playback stops, the scheduler is reset, the
\* error is emitted and shown by the errorToast listener (index.tsx 670-677)
TransportError(kind) ==
    /\ session \in {"connecting", "connected"}
    /\ session' = kind
    /\ playbackState' = "stopped"
    /\ pdjPlaybackState' = OnPlaybackStateChanged("stopped")
    /\ toast' = errorToast("ConnectionError")
    /\ nextStartTime' = Unset
    /\ regions' = CancelPending(regions, now)
    /\ throttleArmed' = FALSE
    /\ mutations' = 0
    /\ UNCHANGED <<codecVars, aliasVars, filteredPrompts, prompts, isDownloadable, isDownloadingLoop, downloads,
                   now, recording, arrivals, resumedAt, latestSnapshot, lastSent,
                   pushes, loopTasks>>

\* a prompt controller reports a change: handlePromptChanged, then the
\* prompts-changed listener hands the translated map to setWeightedPrompts, which
\* keeps it as the latest snapshot and schedules the throttled push
HandlePromptChanged(promptId, text, weight) ==
    /\ pushes < MaxPushes
    /\ prompts' = PromptsAfterChange(prompts, promptId, text, weight, prompts[promptId].cc)
    /\ latestSnapshot' = EnglishPrompts(prompts')
    /\ throttleArmed' = TRUE
    /\ mutations' = IF prompts' # prompts /\ mutations < MutationCap
                    THEN mutations + 1 ELSE mutations
    /\ initialPrompts' = ObjectsSeenThrough(initialPrompts, promptsAreInitial, prompts')
    /\ UNCHANGED <<codecVars, filteredPrompts, promptsAreInitial, startupSnapshot,
                   pdjPlaybackState, isDownloadable, isDownloadingLoop,
                   toast, downloads, session, playbackState, schedVars, lastSent,
                   pushes, loopTasks>>

\* the randomize button: randomizePrompts, then the prompts-changed listener
RandomizePrompts(chosen, w) ==
    /\ pushes < MaxPushes
    /\ prompts' = PromptsAfterRandomize(prompts, chosen, w)
    /\ initialPrompts' = ObjectsSeenThrough(initialPrompts, promptsAreInitial, prompts')
    /\ latestSnapshot' = EnglishPrompts(prompts')
    /\ throttleArmed' = TRUE
    /\ mutations' = IF prompts' # prompts /\ mutations < MutationCap
                    THEN mutations + 1 ELSE mutations
    /\ UNCHANGED <<codecVars, filteredPrompts, promptsAreInitial, startupSnapshot,
                   pdjPlaybackState, isDownloadable, isDownloadingLoop,
                   toast, downloads, session, playbackState, schedVars, lastSent,
                   pushes, loopTasks>>

\* the style selector: handleStyleChange builds new Prompt objects for the style,
\* clears the filtered set, and the prompts-changed listener runs
HandleStyleChange(stylePrompts, startOn) ==
    /\ pushes < MaxPushes
    /\ prompts' = buildPromptsForStyle(stylePrompts, startOn)
    /\ promptsAreInitial' = FALSE
    /\ filteredPrompts' = {}
    /\ latestSnapshot' = EnglishPrompts(prompts')
    /\ throttleArmed' = TRUE
    /\ mutations' = IF prompts' # prompts /\ mutations < MutationCap
                    THEN mutations + 1 ELSE mutations
    /\ UNCHANGED <<codecVars, initialPrompts, startupSnapshot,
                   pdjPlaybackState, isDownloadable, isDownloadingLoop,
                   toast, downloads, session, playbackState, schedVars, lastSent,
                   pushes, loopTasks>>

\* the throttle interval ends: the latest snapshot is pushed when the session is
\* connected and it differs from the last sent one; while the session is not
\* connected the push is a no-op with a surfaced error
ThrottleFires ==
    /\ throttleArmed
    /\ throttleArmed' = FALSE
    /\ mutations' = 0
    /\ IF session # "connected"
       THEN /\ toast' = errorToast("sessionNotConnected")
            /\ UNCHANGED <<lastSent, pushes>>
       ELSE IF PushNeeded(latestSnapshot, lastSent)
            THEN /\ pushes' = pushes + 1
                 /\ lastSent' = latestSnapshot
                 /\ UNCHANGED toast
            ELSE UNCHANGED <<lastSent, pushes, toast>>
    /\ UNCHANGED <<codecVars, aliasVars, filteredPrompts, prompts, pdjPlaybackState, isDownloadable,
                   isDownloadingLoop, downloads, session, playbackState, schedVars,
                   latestSnapshot, loopTasks>>

\* the texts a session can name in a filtered-prompt signal
SentTexts == IF lastSent = NoSnapshot THEN {} ELSE {lastSent[id].text : id \in DOMAIN lastSent}

\* the session reports that it rejected a prompt of the snapshot it was sent: the
\* filtered-prompt listener (index.tsx 661-668) shows the reason and hands the
\* prompt's key to addFilteredPrompt
FilteredPrompt(text, reason) ==
    /\ session = "connected"
    /\ lastSent # NoSnapshot
    /\ \E id \in DOMAIN lastSent : lastSent[id].text = text
    /\ toast' = reason
    /\ filteredPrompts' = addFilteredPrompt(filteredPrompts, englishToKey(text))
    /\ UNCHANGED <<codecVars, aliasVars, prompts, pdjPlaybackState, isDownloadable,
                   isDownloadingLoop, downloads, engineVars>>

\* the download button: requestDownload dispatches download-requested and the
\* listener (index.tsx 619-634) runs
RequestDownload ==
    /\ Len(downloads) < MaxDownloads
    /\ LET blob == getRecordedAudioBlob(recording)
       IN  IF DownloadResultDownloads(blob)
           THEN /\ downloads' = Append(downloads, [name    |-> "prompt-dj-music.wav",
                                                   seconds |-> blob.seconds])
                /\ UNCHANGED toast
           ELSE /\ toast' = t("noAudioRecorded")
                /\ UNCHANGED downloads
    /\ UNCHANGED <<codecVars, aliasVars, filteredPrompts, prompts, pdjPlaybackState,
                   isDownloadable, isDownloadingLoop, engineVars>>

\* the loop button: requestLoopDownload (923-926); when not rejected the listener
\* (index.tsx 636-639) runs up to its await: startLoopDownload, then downloadLoop(20)
RequestLoopDownload ==
    /\ Len(loopTasks) < MaxLoopTasks
    /\ Len(downloads) < MaxDownloads
    /\ IF LoopRequestRejected(isDownloadingLoop)
       THEN UNCHANGED <<isDownloadingLoop, loopTasks>>
       ELSE /\ isDownloadingLoop' = TRUE
            /\ LET result == extractLoop(recording, LoopSeconds)
               IN  \E delivery \in (IF result.kind = "blob" THEN {"resolves"}
                                    ELSE FailureDeliveries) :
                      loopTasks' = Append(loopTasks,
                                          [kind |-> result.kind,
                                           seconds |-> result.seconds,
                                           delivery |-> delivery])
    /\ UNCHANGED <<codecVars, aliasVars, filteredPrompts, prompts, pdjPlaybackState, isDownloadable, toast,
                   downloads, session, playbackState, schedVars, controlVars>>

\* an outstanding downloadLoop settles and the listener resumes (index.tsx 640-658)
LoopSettles(i) ==
    /\ i \in 1..Len(loopTasks)
    /\ loopTasks' = SubSeq(loopTasks, 1, i - 1) \o SubSeq(loopTasks, i + 1, Len(loopTasks))
    /\ IF LoopResultDownloads(loopTasks[i])
       THEN /\ downloads' = Append(downloads, [name    |-> "prompt-dj-loop.wav",
                                               seconds |-> loopTasks[i].seconds])
            /\ UNCHANGED toast
       ELSE /\ toast' = t("loopDownloadFailed")
            /\ UNCHANGED downloads
    \* finally: finishLoopDownload
    /\ isDownloadingLoop' = DownloadingAfterSettle(loopTasks[i])
    /\ UNCHANGED <<codecVars, aliasVars, filteredPrompts, prompts, pdjPlaybackState, isDownloadable, session,
                   playbackState, schedVars, controlVars>>

-----------------------------------------------------------------------------
(* The codec harness: inputs drawn from bounded sets, one call per function *)

PcmByteValues == {0, 1, 255}
ChannelCounts == {1, 2}
SampleRates == {16000, 44100, 48000}

FullScale == Scale * SubSteps

\* samples of [-1, 1] as numerators over FullScale: both endpoints, the
\* neighbourhood of each endpoint and of zero, and two mid-range values
FloatSamples ==
    {n \in -FullScale..FullScale :
        \/ Abs(n) <= EdgeWidth
        \/ Abs(n) >= FullScale - EdgeWidth
        \/ Abs(n) = FullScale \div 2 + 1}

NoResult == <<>>

\* the MIDI controls before the MIDI button is used, with no device attached
MidiIdle ==
    /\ midiInputs = <<>>
    /\ access = FALSE
    /\ activeMidiInputId = Null
    /\ midiInputIds = <<>>
    /\ pdjActiveMidiInputId = Null
    /\ showMidi = FALSE
    /\ lastMidi = <<>>
    /\ lastCc = <<>>

\* STYLES[0].prompts, its first seven entries
CozyGamePrompts ==
    <<"prompt_cozy_village_theme", "prompt_2d_exploration", "prompt_quiet_puzzle_music",
      "prompt_calm_synth_pads", "prompt_soothing_atmosphere", "prompt_gentle_strings",
      "prompt_simple_piano_melody">>

BuildIdle ==
    /\ styleIn = DefaultPrompts
    /\ shuffled = <<>>
    /\ built = <<>>

\* i18n.ts with the translations of the initial language loaded
LangIdle ==
    /\ translations = "en"
    /\ docLang = "en"
    /\ langCalls = <<>>

\* the analyser and the visualizer as constructed and rendered once
VizIdle ==
    /\ analyserRunning = FALSE
    /\ isPlaying = FALSE
    /\ pendingFrames = 0
    /\ stateEvents = <<>>

\* no analysis requested
AnalysisIdle ==
    /\ analysisIn = <<>>
    /\ analysisDone = FALSE

SideIdle == MidiIdle /\ BuildIdle /\ LangIdle /\ VizIdle /\ AnalysisIdle

ExtractIdle ==
    /\ recPcm = <<>>
    /\ recChannels = 1
    /\ recRate = 4
    /\ loopD = 1
    /\ loopOut = NoResult

WavInit ==
    /\ AppInit
    /\ wavPcm \in SeqsOf(PcmByteValues, 0, MaxPcmLen)
    /\ wavChannels \in ChannelCounts
    /\ wavRate \in SampleRates
    /\ wavBlob = <<>>
    /\ floatIn = <<0>>
    /\ pcmBytes = <<>>
    /\ decoded = <<>>
    /\ base64In = <<>>
    /\ decChannels = 1
    /\ decodeOutcome = ""
    /\ ExtractIdle
    /\ SideIdle

PcmInit ==
    /\ AppInit
    /\ wavPcm = <<>>
    /\ wavChannels = 1
    /\ wavRate = 16000
    /\ wavBlob = <<>>
    /\ floatIn \in SeqsOf(FloatSamples, 1, MaxFloats)
    /\ pcmBytes = <<>>
    /\ decoded = <<>>
    /\ base64In = <<>>
    /\ decChannels = 1
    /\ decodeOutcome = ""
    /\ ExtractIdle
    /\ SideIdle

PureIdle ==
    /\ wavPcm = <<>>
    /\ wavChannels = 1
    /\ wavRate = 16000
    /\ wavBlob = <<>>
    /\ floatIn = <<0>>
    /\ pcmBytes = <<>>
    /\ decoded = <<>>
    /\ base64In = <<>>
    /\ decChannels = 1
    /\ decodeOutcome = ""
    /\ ExtractIdle

CodecIdle == PureIdle /\ SideIdle

RunCreateWavBlob ==
    /\ wavBlob = <<>>
    /\ wavBlob' = createWavBlob(wavPcm, wavChannels, wavRate)
    /\ UNCHANGED <<wavPcm, wavChannels, wavRate, floatIn, pcmBytes, decoded,
                   base64In, decChannels, decodeOutcome, extractVars, sideVars,
                   uiVars, engineVars>>

RunCreateBlob ==
    /\ pcmBytes = <<>>
    /\ pcmBytes' = createBlob(floatIn)
    /\ UNCHANGED <<wavPcm, wavChannels, wavRate, wavBlob, floatIn, decoded,
                   base64In, decChannels, decodeOutcome, extractVars, sideVars,
                   uiVars, engineVars>>

\* decode(base64In): the bytes are kept in pcmBytes
RunDecode ==
    /\ decodeOutcome = ""
    /\ LET r == decode(base64In)
       IN  /\ decodeOutcome' = r.outcome
           /\ pcmBytes' = r.bytes
    /\ UNCHANGED <<wavPcm, wavChannels, wavRate, wavBlob, floatIn, decoded,
                   base64In, decChannels, extractVars, sideVars,
                   uiVars, engineVars>>

\* decodeAudioData(pcmBytes, ctx, sampleRate, decChannels), on the bytes made by
\* createBlob or returned by decode
RunDecodeAudioData ==
    /\ \/ decodeOutcome = "" /\ pcmBytes # <<>>
       \/ decodeOutcome = "decoded"
    /\ LET r == decodeAudioData(pcmBytes, decChannels)
       IN  /\ decoded' = r.channels
           /\ decodeOutcome' = r.outcome
    /\ UNCHANGED <<wavPcm, wavChannels, wavRate, wavBlob, floatIn, pcmBytes,
                   base64In, decChannels, extractVars, sideVars,
                   uiVars, engineVars>>

\* samples inside and outside [-1, 1]: the neighbourhood of every multiple of
\* full scale up to three times full scale, on both sides of each quantisation step
WideSamples ==
    {k * FullScale + o :
        k \in -3..3,
        o \in {-(SubSteps + 1), -SubSteps, -(SubSteps - 1), -1, 0,
               1, SubSteps - 1, SubSteps, SubSteps + 1}}

EncodeInit ==
    /\ AppInit
    /\ wavPcm = <<>>
    /\ wavChannels = 1
    /\ wavRate = 16000
    /\ wavBlob = <<>>
    /\ floatIn \in SeqsOf(WideSamples, 1, MaxFloats)
    /\ pcmBytes = <<>>
    /\ decoded = <<>>
    /\ base64In = <<>>
    /\ decChannels = 1
    /\ decodeOutcome = ""
    /\ ExtractIdle
    /\ SideIdle

\* the bytes of the buffers whose base64 text is handed to decode
DecodeByteValues == {0, 1, 255}

\* longest buffer encoded for decode
MaxDecodeLen == 6

\* numChannels handed to decodeAudioData; 0 is the value its line 61 tests for
DecodeChannelCounts == {0, 1, 2, 3}

\* the texts handed to decode: the encoding of a buffer, intact, cut short by one
\* to three characters, or with its first character replaced by one that is not
\* of the base64 alphabet
DamagedTexts(text) ==
    {SubSeq(text, 1, Len(text) - k) : k \in 0..(IF Len(text) < 3 THEN Len(text) ELSE 3)}
        \cup (IF text = <<>> THEN {<<Illegal>>} ELSE {[text EXCEPT ![1] = Illegal]})

DecodeInit ==
    /\ AppInit
    /\ wavPcm = <<>>
    /\ wavChannels = 1
    /\ wavRate = 16000
    /\ wavBlob = <<>>
    /\ floatIn = <<0>>
    /\ pcmBytes = <<>>
    /\ decoded = <<>>
    /\ \E bytes \in SeqsOf(DecodeByteValues, 0, MaxDecodeLen) :
          base64In \in DamagedTexts(encode(bytes))
    /\ decChannels \in DecodeChannelCounts
    /\ decodeOutcome = ""
    /\ ExtractIdle
    /\ SideIdle

\* longest recording handed to extractLoop, in frames
MaxRecFrames == 11

\* the sample rates (scaled down to a few frames per second), channel counts and
\* loop durations of the extraction
LoopRates == {4, 5}

LoopChannelCounts == {1, 2}

LoopDurations == {1, 2}

\* the recorded samples: sample k is base + step * k, so that no two are equal
RampBases == {-300, 0}

RampSteps == {1, 50, -7}

ExtractInit ==
    /\ AppInit
    /\ wavPcm = <<>>
    /\ wavChannels = 1
    /\ wavRate = 16000
    /\ wavBlob = <<>>
    /\ floatIn = <<0>>
    /\ pcmBytes = <<>>
    /\ decoded = <<>>
    /\ base64In = <<>>
    /\ decChannels = 1
    /\ decodeOutcome = ""
    /\ recChannels \in LoopChannelCounts
    /\ recRate \in LoopRates
    /\ loopD \in LoopDurations
    /\ \E frames \in 0..MaxRecFrames, base \in RampBases, step \in RampSteps :
          recPcm = [k \in 1..(frames * recChannels) |-> base + step * k]
    /\ loopOut = NoResult
    /\ SideIdle

RunExtractLoop ==
    /\ loopOut = NoResult
    /\ \E seam \in {"head", "tail"} :
          loopOut' = extractLoopContainer(recPcm, recChannels, recRate, loopD, seam)
    /\ UNCHANGED <<wavPcm, wavChannels, wavRate, wavBlob, floatIn, pcmBytes, decoded,
                   base64In, decChannels, decodeOutcome,
                   recPcm, recChannels, recRate, loopD, sideVars, uiVars, engineVars>>

WavNext == RunCreateWavBlob

ExtractNext == RunExtractLoop

SpecExtract == ExtractInit /\ [][ExtractNext]_vars

DecodeNext == RunDecode \/ RunDecodeAudioData

SpecDecode == DecodeInit /\ [][DecodeNext]_vars

EncodeNext == RunCreateBlob

SpecEncode == EncodeInit /\ [][EncodeNext]_vars

PcmNext == RunCreateBlob \/ RunDecodeAudioData

SpecWav == WavInit /\ [][WavNext]_vars

SpecPcm == PcmInit /\ [][PcmNext]_vars

-----------------------------------------------------------------------------
(* MIDI devices: the dispatcher, the component's MIDI button and input selector *)

\* the status bytes and data bytes of the messages delivered
StatusBytes == {176, 179, 191, 144, 128, 160, 192}

DataBytes == {0, 127}

\* event.data: null, or up to three bytes of which the first is a status byte
MidiData ==
    {NoData, <<>>}
        \cup {<<s>> : s \in StatusBytes}
        \cup {<<s, d>> : s \in StatusBytes, d \in DataBytes}
        \cup {<<s, d, e>> : s \in StatusBytes, d \in DataBytes, e \in DataBytes}

\* the inputs attached when the page loads: any of them, in any order
MidiInit ==
    /\ midiInputs \in {ids \in SeqsOf(MidiIds, 0, Cardinality(MidiIds)) :
                          \A i, j \in 1..Len(ids) : ids[i] = ids[j] => i = j}
    /\ access = FALSE
    /\ activeMidiInputId = Null
    /\ midiInputIds = <<>>
    /\ pdjActiveMidiInputId = Null
    /\ showMidi = FALSE
    /\ lastMidi = <<>>
    /\ lastCc = <<>>

\* the MIDI button: toggleShowMidi, setShowMidi and refreshMidiDevices with
\* getMidiAccess; a failure hides the controls again and reaches errorToast
ToggleShowMidi(outcome) ==
    /\ IF showMidi
       THEN /\ showMidi' = FALSE
            /\ UNCHANGED <<access, activeMidiInputId, midiInputIds, pdjActiveMidiInputId, toast>>
       ELSE IF access
       THEN /\ showMidi' = TRUE
            /\ midiInputIds' = midiInputs
            /\ pdjActiveMidiInputId' = activeMidiInputId
            /\ UNCHANGED <<access, activeMidiInputId, toast>>
       ELSE IF outcome = "granted"
       THEN /\ showMidi' = TRUE
            /\ access' = TRUE
            /\ activeMidiInputId' = getMidiAccess(activeMidiInputId, midiInputs)
            /\ midiInputIds' = midiInputs
            /\ pdjActiveMidiInputId' = activeMidiInputId'
            /\ UNCHANGED toast
       ELSE /\ showMidi' = FALSE
            /\ toast' = errorToast(outcome)
            /\ UNCHANGED <<access, activeMidiInputId, midiInputIds, pdjActiveMidiInputId>>
    /\ UNCHANGED <<besidesMidi, midiInputs, lastMidi, lastCc, prompts, filteredPrompts, aliasVars,
                   pdjPlaybackState, isDownloadable, isDownloadingLoop, downloads, engineVars>>

\* the inputs changed: onStateChange once access has been granted, and the
\* component's refreshMidiDevices on midi-devices-changed
InputsChanged(inputIds) ==
    /\ midiInputs' = inputIds
    /\ IF access
       THEN /\ activeMidiInputId' = onStateChange(activeMidiInputId, inputIds)
            /\ midiInputIds' = inputIds
            /\ pdjActiveMidiInputId' = activeMidiInputId'
       ELSE UNCHANGED <<activeMidiInputId, midiInputIds, pdjActiveMidiInputId>>
    /\ UNCHANGED <<besidesMidi, access, showMidi, lastMidi, lastCc, uiVars, engineVars>>

\* a MIDI input is attached
DeviceConnects(id) ==
    /\ id \notin ElementsOf(midiInputs)
    /\ InputsChanged(Append(midiInputs, id))

\* a MIDI input is detached
DeviceDisconnects(id) ==
    /\ id \in ElementsOf(midiInputs)
    /\ InputsChanged(SelectSeq(midiInputs, LAMBDA x : x # id))

\* the input selector: handleMidiInputChange with the value of one of its options
HandleMidiInputChange(newMidiId) ==
    /\ showMidi
    /\ newMidiId \in ElementsOf(midiInputIds)
    /\ pdjActiveMidiInputId' = newMidiId
    /\ activeMidiInputId' = newMidiId
    /\ UNCHANGED <<besidesMidi, midiInputs, access, midiInputIds, showMidi, lastMidi, lastCc,
                   uiVars, engineVars>>

\* an input that carries the handler delivers a message
MidiMessage(inputId, data) ==
    /\ access
    /\ inputId \in ElementsOf(midiInputs)
    /\ lastMidi' = <<[from |-> inputId, data |-> data, active |-> activeMidiInputId]>>
    /\ lastCc' = onMidiMessage(inputId, data, activeMidiInputId)
    /\ UNCHANGED <<besidesMidi, midiInputs, access, activeMidiInputId, midiInputIds,
                   pdjActiveMidiInputId, showMidi, uiVars, engineVars>>

MidiNext ==
    \/ \E outcome \in AccessOutcomes : ToggleShowMidi(outcome)
    \/ \E id \in MidiIds : DeviceConnects(id)
    \/ \E id \in MidiIds : DeviceDisconnects(id)
    \/ \E id \in MidiIds : HandleMidiInputChange(id)
    \/ \E id \in MidiIds, data \in MidiData : MidiMessage(id, data)

MidiStart ==
    PureIdle /\ AppInit /\ MidiInit /\ BuildIdle /\ LangIdle /\ VizIdle /\ AnalysisIdle

SpecMidi == MidiStart /\ [][MidiNext]_vars

-----------------------------------------------------------------------------
(* Building the prompts of a style *)

\* the longest style handed to the builders
MaxStylePrompts == 5

\* a style of two to MaxStylePrompts prompts
BuildInit ==
    /\ \E n \in 2..MaxStylePrompts : styleIn = SubSeq(CozyGamePrompts, 1, n)
    /\ shuffled = <<>>
    /\ built = <<>>

\* buildInitialPrompts(styleIn), for the order the random sort produces
RunBuildInitialPrompts(order) ==
    /\ built = <<>>
    /\ shuffled' = order
    /\ built' = buildInitialPrompts(styleIn, sliceFirstThree(order))
    /\ UNCHANGED <<besidesBuild, styleIn, uiVars, engineVars>>

\* buildPromptsForStyle(style) with style.prompts = styleIn
RunBuildPromptsForStyle(order) ==
    /\ built = <<>>
    /\ shuffled' = order
    /\ built' = buildPromptsForStyle(styleIn, sliceFirstThree(order))
    /\ UNCHANGED <<besidesBuild, styleIn, uiVars, engineVars>>

BuildNext ==
    \/ \E order \in SortOrders(Len(styleIn)) : RunBuildInitialPrompts(order)
    \/ \E order \in SortOrders(Len(styleIn)) : RunBuildPromptsForStyle(order)

BuildStart ==
    PureIdle /\ AppInit /\ MidiIdle /\ BuildInit /\ LangIdle /\ VizIdle /\ AnalysisIdle

SpecBuild == BuildStart /\ [][BuildNext]_vars

-----------------------------------------------------------------------------
(* utils/i18n.ts: setLanguage *)

\* the most setLanguage calls made from outside: the one of the module's
\* initialisation and those of the language selector
MaxLangCalls == 3

\* supportedLangs, and the options of the language selector
SupportedLangs == {"en", "zh-CN"}

\* line 14: the language is the active one and translations are loaded
AlreadyLoaded(lang, active, loaded) == active = lang /\ loaded # ""

\* lines 28-31: the languages setLanguage goes on to after lang failed to load
FallbackLangsAlways(lang) == <<"en">>

FallbackLangs(lang) == IF lang # "en" THEN <<"en">> ELSE <<>>

\* a call of setLanguage(lang), from outside or from the catch block: it returns
\* at once, or it starts the fetch of lang's file
Entered(call, lang, active, loaded) ==
    IF AlreadyLoaded(lang, active, loaded)
    THEN [call EXCEPT !.fetching = ""]
    ELSE [call EXCEPT !.fetching = lang, !.fetched = Append(@, lang)]

\* the call record of setLanguage(lang) issued from outside
NewLangCall(lang, pending) ==
    [lang |-> lang, fetching |-> "", fetched |-> <<>>, failed |-> <<>>,
     fallbacks |-> 0, overlapped |-> pending]

Settled(call) == call.fetching = ""

\* the module's initialisation, lines 51-68: translations is {}, the document
\* language is what the page declares, and setLanguage(initialLang) has been called
LangInit ==
    /\ translations = ""
    /\ docLang \in {"", "en"}
    /\ \E initialLang \in SupportedLangs :
          langCalls = <<Entered(NewLangCall(initialLang, FALSE), initialLang, docLang, "")>>

\* handleLanguageChange: setLanguage(selectElement.value)
SetLanguage(lang) ==
    /\ Len(langCalls) < MaxLangCalls
    /\ langCalls' =
          Append(langCalls,
                 Entered(NewLangCall(lang, \E i \in 1..Len(langCalls) : ~Settled(langCalls[i])),
                         lang, docLang, translations))
    /\ UNCHANGED <<besidesLang, translations, docLang, uiVars, engineVars>>

\* the fetch of call i ends: with the file, which becomes the translations and
\* sets the document language, or with a failure, after which the catch block
\* calls setLanguage for the fallback language, if there is one
FetchSettles(i, ok) ==
    /\ i \in 1..Len(langCalls)
    /\ ~Settled(langCalls[i])
    /\ LET call == langCalls[i]
           lang == call.fetching
       IN  IF ok
           THEN /\ translations' = lang
                /\ docLang' = lang
                /\ langCalls' = [langCalls EXCEPT ![i].fetching = ""]
           ELSE LET failedCall == [call EXCEPT !.failed = Append(@, lang)]
                    next == FallbackLangs(lang)
                IN  /\ langCalls' =
                          [langCalls EXCEPT ![i] =
                              IF next = <<>> THEN [failedCall EXCEPT !.fetching = ""]
                              ELSE Entered([failedCall EXCEPT !.fallbacks = @ + 1],
                                           next[1], docLang, translations)]
                    /\ UNCHANGED <<translations, docLang>>
    /\ UNCHANGED <<besidesLang, uiVars, engineVars>>

LangNext ==
    \/ \E lang \in SupportedLangs : SetLanguage(lang)
    \/ \E i \in 1..MaxLangCalls, ok \in BOOLEAN : FetchSettles(i, ok)

LangStart ==
    PureIdle /\ AppInit /\ MidiIdle /\ BuildIdle /\ LangInit /\ VizIdle /\ AnalysisIdle

SpecLang == LangStart /\ [][LangNext]_vars

\* every fetch ends, with the file or with a failure
SpecLangSettling ==
    LangStart /\ [][LangNext]_vars
        /\ \A i \in 1..MaxLangCalls : WF_vars(\E ok \in BOOLEAN : FetchSettles(i, ok))

-----------------------------------------------------------------------------
(* The audio analyser and the visualizer, driven by playback-state-changed *)

\* the most events and the most pending draw callbacks followed
MaxStateEvents == 4

MaxPendingFrames == 3

\* index.tsx 610-612: playbackState === 'playing' ? audioAnalyser.start() : audioAnalyser.stop()
AnalyserAfterNeverStops(detail, running) == running \/ detail = "playing"

AnalyserAfter(detail, running) == detail = "playing"

\* AudioVisualizer.draw, lines 56-64, with the canvas context set by firstUpdated:
\* the callbacks it hands to requestAnimationFrame
draw(playing) == IF ~playing THEN 0 ELSE 1

\* AudioVisualizer.play, lines 47-51: isPlaying and the callbacks requested
play(playing) ==
    IF playing THEN [isPlaying |-> playing, requested |-> 0]
    ELSE [isPlaying |-> TRUE, requested |-> draw(TRUE)]

\* AudioVisualizer.stop, lines 53-55
stop(playing) == [isPlaying |-> FALSE, requested |-> 0]

\* PromptDjMidi.updated, lines 599-608, after playbackState was assigned: Lit
\* reports the property as changed when the new value differs from the old one
updated(old, new, playing) ==
    IF old = new THEN [isPlaying |-> playing, requested |-> 0]
    ELSE IF new = "playing" THEN play(playing) ELSE stop(playing)

\* a playback-state-changed event with this detail: the listener of index.tsx
\* 608-613 assigns the component's playbackState and starts or stops the
\* analyser, and the component's update plays or stops the visualizer
PlaybackStateChanged(detail) ==
    /\ Len(stateEvents) < MaxStateEvents
    /\ LET viz == updated(pdjPlaybackState, OnPlaybackStateChanged(detail), isPlaying)
       IN  /\ pendingFrames + viz.requested <= MaxPendingFrames
           /\ isPlaying' = viz.isPlaying
           /\ pendingFrames' = pendingFrames + viz.requested
    /\ stateEvents' = Append(stateEvents, detail)
    /\ playbackState' = detail
    /\ pdjPlaybackState' = OnPlaybackStateChanged(detail)
    /\ analyserRunning' = AnalyserAfter(detail, analyserRunning)
    /\ UNCHANGED <<besidesViz, prompts, filteredPrompts, aliasVars, isDownloadable,
                   isDownloadingLoop, toast, downloads, session, schedVars, controlVars,
                   loopTasks>>

\* the browser runs one pending draw callback
AnimationFrame ==
    /\ pendingFrames > 0
    /\ pendingFrames' = pendingFrames - 1 + draw(isPlaying)
    /\ UNCHANGED <<besidesViz, analyserRunning, isPlaying, stateEvents, uiVars, engineVars>>

VizNext ==
    \/ \E detail \in PlaybackStates : PlaybackStateChanged(detail)
    \/ AnimationFrame

VizStart ==
    PureIdle /\ AppInit /\ MidiIdle /\ BuildIdle /\ LangIdle /\ VizIdle /\ AnalysisIdle

SpecViz == VizStart /\ [][VizNext]_vars

-----------------------------------------------------------------------------
(* PromptDjMidi.updatePromptsFromAnalysis *)

\* the keys of allPromptsMap in the order of insertion: the prompts of
\* style_cozy_game and the first three of style_cinematic_orchestra
AllPromptTexts ==
    <<"prompt_cozy_village_theme", "prompt_2d_exploration", "prompt_quiet_puzzle_music",
      "prompt_calm_synth_pads", "prompt_soothing_atmosphere", "prompt_gentle_strings",
      "prompt_simple_piano_melody", "prompt_peaceful_flute", "prompt_relaxing_chiptune",
      "prompt_stardew_valley_inspired", "prompt_ghibli_esque_piano", "prompt_8_bit_lullaby",
      "prompt_underwater_level", "prompt_mysterious_forest", "prompt_lofi_beats",
      "prompt_ambient_soundscape", "prompt_epic_strings_section",
      "prompt_triumphant_brass_fanfare", "prompt_delicate_woodwinds">>

\* the number of prompt slots, lines 845 and 861
PromptSlots == 16

\* the prompts added from the analysis result, lines 845-858: every entry whose
\* text allPromptsMap knows, with the weight the analysis gave it
RECURSIVE AddFromAnalysis(_, _)
AddFromAnalysis(entries, acc) ==
    IF entries = <<>> THEN acc
    ELSE LET p == Head(entries)
         IN  IF p.text \in ElementsOf(AllPromptTexts)
             THEN AddFromAnalysis(Tail(entries),
                                  Append(acc, [promptId |-> PromptIdOf[Len(acc) + 1],
                                               text     |-> p.text,
                                               weight   |-> p.weight,
                                               cc       |-> Len(acc)]))
             ELSE AddFromAnalysis(Tail(entries), acc)

\* the remaining slots, lines 861-875: the prompts of allPromptsMap that the
\* analysis did not use, at weight 0, until the slots are full
RECURSIVE FillRemaining(_, _, _)
FillRemaining(defs, used, acc) ==
    IF defs = <<>> \/ Len(acc) >= PromptSlots THEN acc
    ELSE IF Head(defs) \notin used
    THEN FillRemaining(Tail(defs), used,
                       Append(acc, [promptId |-> PromptIdOf[Len(acc) + 1],
                                    text     |-> Head(defs),
                                    weight   |-> 0,
                                    cc       |-> Len(acc)]))
    ELSE FillRemaining(Tail(defs), used, acc)

\* newPrompts of updatePromptsFromAnalysis for a non-empty result
PromptsFromAnalysis(result) ==
    LET sliced == SubSeq(result, 1, IF Len(result) < PromptSlots THEN Len(result)
                                     ELSE PromptSlots)
        added == AddFromAnalysis(sliced, <<>>)
        usedPromptKeys == {added[i].text : i \in 1..Len(added)}
        all == FillRemaining(AllPromptTexts, usedPromptKeys, added)
    IN  [id \in {PromptIdOf[i] : i \in 1..Len(all)} |->
            all[CHOOSE i \in 1..Len(all) : PromptIdOf[i] = id]]

\* the longest of the short analysis results
MaxResultLen == 3

\* the entries of the short results: two known texts, one of them at two weights,
\* and a text that no style has
ResultEntries ==
    {[text |-> "prompt_2d_exploration", weight |-> 1],
     [text |-> "prompt_2d_exploration", weight |-> 0],
     [text |-> "prompt_delicate_woodwinds", weight |-> 1],
     [text |-> "prompt_not_of_any_style", weight |-> 1]}

\* longer results: more known texts than there are slots, without and with an
\* unknown text in front
LongResults ==
    LET known == [i \in 1..(PromptSlots + 1) |-> [text |-> AllPromptTexts[i], weight |-> 1]]
    IN  {known, <<[text |-> "prompt_not_of_any_style", weight |-> 1]>> \o known}

AnalysisInit ==
    /\ analysisIn \in SeqsOf(ResultEntries, 0, MaxResultLen) \cup LongResults
    /\ analysisDone = FALSE

\* the analysis of an image or of an audio file returns: updatePromptsFromAnalysis,
\* then the prompts-changed listener; an empty result reaches errorToast instead
UpdatePromptsFromAnalysis ==
    /\ ~analysisDone
    /\ analysisDone' = TRUE
    /\ IF analysisIn = <<>>
       THEN /\ toast' = errorToast("analysisFailedError")
            /\ UNCHANGED <<prompts, filteredPrompts, promptsAreInitial, latestSnapshot,
                           throttleArmed, mutations>>
       ELSE /\ prompts' = PromptsFromAnalysis(analysisIn)
            /\ filteredPrompts' = {}
            /\ promptsAreInitial' = FALSE
            /\ latestSnapshot' = EnglishPrompts(prompts')
            /\ throttleArmed' = TRUE
            /\ mutations' = IF prompts' # prompts /\ mutations < MutationCap
                            THEN mutations + 1 ELSE mutations
            /\ UNCHANGED toast
    /\ UNCHANGED <<besidesAnalysis, analysisIn, initialPrompts, startupSnapshot,
                   pdjPlaybackState, isDownloadable, isDownloadingLoop, downloads,
                   session, playbackState, schedVars, lastSent, pushes, loopTasks>>

AnalysisNext == UpdatePromptsFromAnalysis

AnalysisStart ==
    PureIdle /\ AppInit /\ MidiIdle /\ BuildIdle /\ LangIdle /\ VizIdle /\ AnalysisInit

SpecAnalysis == AnalysisStart /\ [][AnalysisNext]_vars

-----------------------------------------------------------------------------
(* The application *)

Init == CodecIdle /\ AppInit

TypeOK ==
    /\ playbackState \in PlaybackStates
    /\ pdjPlaybackState \in PlaybackStates
    /\ session \in SessionStates
    /\ isDownloadable \in BOOLEAN
    /\ isDownloadingLoop \in BOOLEAN
    /\ throttleArmed \in BOOLEAN
    /\ now \in 0..MaxTime
    /\ nextStartTime \in {Unset} \cup Nat
    /\ pushes \in 0..MaxPushes
    /\ mutations \in 0..MutationCap
    /\ Len(arrivals) <= MaxChunks
    /\ Len(recording) <= MaxChunks
    /\ Len(regions) <= MaxChunks
    /\ Len(loopTasks) <= MaxLoopTasks
    /\ Len(downloads) <= MaxDownloads
    /\ DOMAIN prompts \subseteq {PromptIdOf[i] : i \in 1..Len(PromptIdOf)}
    /\ DOMAIN initialPrompts = PromptIds
    /\ promptsAreInitial \in BOOLEAN
    /\ promptsAreInitial => initialPrompts = prompts
    /\ decodeOutcome \in {"", "decoded", "returns", "InvalidCharacterError",
                          "NotSupportedError", "RangeError"}
    /\ \A id \in DOMAIN prompts : prompts[id].weight \in Weights

Next ==
    \/ PlayPause
    \/ SessionOpened
    \/ \E d \in ChunkDurations : ChunkArrives(d)
    \/ Tick
    \/ \E kind \in {"errored", "closed"} : TransportError(kind)
    \/ \E id \in PromptIds, w \in Weights :
          \E text \in {t(prompts[id].text)} \cup CustomTexts :
             HandlePromptChanged(id, text, w)
    \/ ThrottleFires
    \/ RequestLoopDownload
    \/ \E i \in 1..MaxLoopTasks : LoopSettles(i)
    \/ \E text \in SentTexts, reason \in FilterReasons : FilteredPrompt(text, reason)
    \/ \E n \in NumToActivate, w \in RandomWeights :
          \E chosen \in ActivationChoices(prompts, n) : RandomizePrompts(chosen, w)
    \/ \E n \in 1..Len(STYLES) :
          \E startOn \in StartOnChoices(STYLES[n]) : HandleStyleChange(STYLES[n], startOn)
    \/ RequestDownload

Spec == Init /\ [][Next]_vars

\* playback, scheduling and recording
PlaybackNext ==
    \/ PlayPause
    \/ SessionOpened
    \/ \E d \in ChunkDurations : ChunkArrives(d)
    \/ Tick
    \/ \E kind \in {"errored", "closed"} : TransportError(kind)

SpecPlayback == Init /\ [][PlaybackNext]_vars

\* the control channel and the session it pushes to
ControlNext ==
    \/ PlayPause
    \/ SessionOpened
    \/ \E kind \in {"errored", "closed"} : TransportError(kind)
    \/ \E id \in PromptIds, w \in Weights :
          \E text \in {t(prompts[id].text)} \cup CustomTexts :
             HandlePromptChanged(id, text, w)
    \/ ThrottleFires

SpecControl == Init /\ [][ControlNext]_vars

\* the prompts, the control channel and the rejections coming back from the session
PromptsNext ==
    \/ PlayPause
    \/ SessionOpened
    \/ \E id \in PromptIds, w \in Weights :
          \E text \in {t(prompts[id].text)} \cup CustomTexts :
             HandlePromptChanged(id, text, w)
    \/ ThrottleFires
    \/ \E text \in SentTexts, reason \in FilterReasons : FilteredPrompt(text, reason)

SpecPrompts == Init /\ [][PromptsNext]_vars

\* the operations of the component that change the prompts
EditNext ==
    \/ \E id \in PromptIds, w \in Weights :
          \E text \in {t(prompts[id].text)} \cup CustomTexts :
             HandlePromptChanged(id, text, w)
    \/ \E n \in NumToActivate, w \in RandomWeights :
          \E chosen \in ActivationChoices(prompts, n) : RandomizePrompts(chosen, w)
    \/ \E n \in 1..Len(STYLES) :
          \E startOn \in StartOnChoices(STYLES[n]) : HandleStyleChange(STYLES[n], startOn)
    \/ ThrottleFires

SpecEdit == Init /\ [][EditNext]_vars

\* recording and loop export
LoopNext ==
    \/ PlayPause
    \/ SessionOpened
    \/ \E d \in ChunkDurations : ChunkArrives(d)
    \/ RequestLoopDownload
    \/ \E i \in 1..MaxLoopTasks : LoopSettles(i)

SpecLoop == Init /\ [][LoopNext]_vars

\* the same, with every outstanding downloadLoop call settling eventually
SpecLoopSettling ==
    Init /\ [][LoopNext]_vars /\ WF_vars(\E i \in 1..MaxLoopTasks : LoopSettles(i))

\* recording and export of the full recording
DownloadNext ==
    \/ PlayPause
    \/ SessionOpened
    \/ \E d \in ChunkDurations : ChunkArrives(d)
    \/ RequestDownload

SpecDownload == Init /\ [][DownloadNext]_vars

-----------------------------------------------------------------------------
(* Properties *)

IsPrefix(a, b) == Len(a) <= Len(b) /\ SubSeq(b, 1, Len(a)) = a

\* little-endian reads of a byte sequence at a 0-based offset
LE16(bytes, offset) == bytes[offset + 1] + 256 * bytes[offset + 2]

LE32(bytes, offset) ==
    bytes[offset + 1] + 256 * bytes[offset + 2]
        + 65536 * bytes[offset + 3] + 16777216 * bytes[offset + 4]

\* C1: createWavBlob returns 44 + N bytes: the canonical little-endian RIFF/WAVE
\* header for N payload bytes, C channels and sample rate R, followed from offset
\* 44 by the payload bytes unchanged.
WavHeaderExact ==
    wavBlob # <<>> =>
        LET N == Len(wavPcm)
            C == wavChannels
            R == wavRate
        IN  /\ Len(wavBlob) = 44 + N
            /\ \A i \in 1..Len(wavBlob) : wavBlob[i] \in 0..255
            /\ SubSeq(wavBlob, 1, 4) = <<82, 73, 70, 70>>
            /\ LE32(wavBlob, 4) = 36 + N
            /\ SubSeq(wavBlob, 9, 12) = <<87, 65, 86, 69>>
            /\ SubSeq(wavBlob, 13, 16) = <<102, 109, 116, 32>>
            /\ LE32(wavBlob, 16) = 16
            /\ LE16(wavBlob, 20) = 1
            /\ LE16(wavBlob, 22) = C
            /\ LE32(wavBlob, 24) = R
            /\ LE32(wavBlob, 28) = R * C * 2
            /\ LE16(wavBlob, 32) = C * 2
            /\ LE16(wavBlob, 34) = 16
            /\ SubSeq(wavBlob, 37, 40) = <<100, 97, 116, 97>>
            /\ LE32(wavBlob, 40) = N
            /\ SubSeq(wavBlob, 45, 44 + N) = wavPcm

\* C1 witness: a stereo 48 kHz blob with a two-byte payload has been built
WavHeaderBuilt ==
    wavBlob # <<>> /\ Len(wavPcm) = 2 /\ wavChannels = 2 /\ wavRate = 48000

\* C2: every sample x of [-1, 1], endpoints included, decodes from its PCM16
\* encoding to a value y with |y - x| <= 1/32768.  (Samples are numerators over
\* Scale * SubSteps, decoded samples numerators over Scale.)
RoundTripWithinQuantum ==
    decoded # <<>> =>
        \A i \in 1..Len(floatIn) :
            Abs(decoded[1][i] * SubSteps - floatIn[i]) <= SubSteps

\* the round trip of the samples below 1
RoundTripBelowOne ==
    decoded # <<>> =>
        \A i \in 1..Len(floatIn) :
            floatIn[i] < FullScale =>
                Abs(decoded[1][i] * SubSteps - floatIn[i]) <= SubSteps

\* C3: the regions scheduled for the chunks of a session that was never paused:
\* each ends no later than the next one starts, and the starts increase strictly.
SchedulerNonOverlap ==
    \A i \in 1..(Len(regions) - 1) :
        (regions[i].since = -1 /\ regions[i + 1].since = -1) =>
            /\ regions[i].end <= regions[i + 1].start
            /\ regions[i].start < regions[i + 1].start

\* C4: while the session is connected, the chunks scheduled so far are exactly the
\* chunks that arrived while playback was not paused, each once, in arrival order;
\* an underrun changes the start of a region, never the list.
ChunksScheduledOnceInOrder ==
    session = "connected" =>
        LET live == SelectSeq(arrivals, LAMBDA a : a.live)
        IN  /\ Len(regions) = Len(live)
            /\ \A i \in 1..Len(regions) :
                  /\ regions[i].seq = live[i].seq
                  /\ regions[i].end - regions[i].start = live[i].dur

\* C4 witness: three chunks scheduled, the second after an underrun (it starts
\* later than the first one ends, with no pause in between)
UnderrunAbsorbed ==
    /\ session = "connected"
    /\ Len(regions) = 3
    /\ regions[2].since = -1
    /\ regions[2].start > regions[1].end

\* the step in which the throttle interval ends
ThrottleIntervalEnds ==
    throttleArmed /\ ~throttleArmed' /\ session' = session

\* the prompt state of the component, as the session is to receive it
SnapshotIsPromptState(snapshot) ==
    /\ snapshot # NoSnapshot
    /\ DOMAIN snapshot = DOMAIN prompts
    /\ \A id \in DOMAIN prompts :
          /\ snapshot[id].weight = prompts[id].weight
          /\ snapshot[id].text = keyToEnglish(prompts[id].text)

AllowedTransition(a, b) ==
    \/ a = b
    \/ b = "stopped"
    \/ a = "stopped" /\ b = "loading" /\ session' = "connecting"
    \/ a = "loading" /\ b = "playing" /\ regions = <<>> /\ Len(regions') = 1
    \/ a = "playing" /\ b = "paused" /\ session' = "connected"
    \/ a = "paused" /\ b = "playing" /\ session' = "connected"

PausedChunksRecordedNotScheduled ==
    /\ [][(playbackState = "paused" /\ session = "connected"
              /\ Len(arrivals') = Len(arrivals) + 1) =>
             /\ regions' = regions
             /\ Len(recording') = Len(recording) + 1
             /\ IsPrefix(recording, recording')
             /\ recording'[Len(recording')].seq = arrivals'[Len(arrivals')].seq]_vars
    /\ [](\A i \in 1..Len(regions) :
             regions[i].since >= 0 => regions[i].start >= regions[i].since)

\* C7 witness: a chunk arrived during a pause, playback was resumed after the clock
\* had advanced, and a later chunk has been scheduled
ScheduledAfterResume ==
    /\ \E i \in 1..Len(arrivals) : ~arrivals[i].live
    /\ \E i \in 1..Len(regions) : regions[i].since >= 1
    /\ Len(recording) = Len(arrivals)

\* C8: in every step the recording keeps its content as a prefix, or it becomes
\* empty at a stop or new-session boundary.
RecordingAppendOnly ==
    [][\/ IsPrefix(recording, recording')
       \/ /\ recording' = <<>>
          /\ \/ playbackState = "stopped" /\ playbackState' = "loading"
             \/ playbackState' = "stopped" /\ session' = "idle"]_vars

\* C8 witness: the recording holds a chunk recorded before a pause, one recorded
\* during it and one recorded after the resume
RecordedAcrossPause ==
    /\ Len(recording) = 3
    /\ Len(arrivals) = 3
    /\ arrivals[1].live /\ ~arrivals[2].live /\ arrivals[3].live

\* C9: at most one downloadLoop call is outstanding at any time, and a request
\* made while isDownloadingLoop is true starts none.
LoopNeverReentrant ==
    /\ [](Len(loopTasks) <= 1)
    /\ [][isDownloadingLoop => Len(loopTasks') <= Len(loopTasks)]_vars

\* C9 witness: an extraction is outstanding and a further request can be made
LoopOutstanding ==
    isDownloadingLoop /\ Len(loopTasks) = 1 /\ ENABLED RequestLoopDownload

\* C10: a loop requested with less than the requested duration recorded fails with
\* InsufficientAudio; a downloadLoop that resolves to no blob or rejects downloads
\* no file and shows the loopDownloadFailed message.
InsufficientAudioNoFile ==
    [][/\ (Len(loopTasks') = Len(loopTasks) + 1
              /\ RecordedDuration(recording) < LoopSeconds) =>
             /\ loopTasks'[Len(loopTasks')].kind = "InsufficientAudio"
             /\ downloads' = downloads
       /\ (Len(loopTasks) = 1 /\ loopTasks' = <<>>
              /\ (loopTasks[1].kind # "blob" \/ loopTasks[1].delivery # "resolves")) =>
             /\ downloads' = downloads
             /\ toast' = "loopDownloadFailed"]_vars

\* C10 witness: a loop was requested with audio recorded, but less than twenty
\* seconds of it, the request has settled, and the failure message is shown
LoopFailureShown ==
    /\ toast = "loopDownloadFailed"
    /\ downloads = <<>>
    /\ recording # <<>>
    /\ RecordedDuration(recording) < LoopSeconds
    /\ ~isDownloadingLoop

\* C11: once the export control has been enabled in a session, a step that keeps
\* the session going (playback stays within playing / paused: a pause or a resume)
\* leaves it enabled.
DownloadableAcrossPauseResume ==
    [][(/\ isDownloadable
        /\ playbackState \in {"playing", "paused"}
        /\ playbackState' \in {"playing", "paused"}) => isDownloadable']_vars

\* k is the number n / SubSteps truncated toward zero
IsTruncation(k, n) ==
    /\ Abs(k) * SubSteps <= Abs(n)
    /\ Abs(n) < (Abs(k) + 1) * SubSteps
    /\ (k # 0 => (k > 0 <=> n > 0))

DecodeSettled == decodeOutcome \notin {"", "decoded"}

\* the signed little-endian 16-bit integer at the 0-based sample index k of bytes
SampleAt(bytes, k) ==
    LET u == bytes[2 * k + 1] + 256 * bytes[2 * k + 2]
    IN  IF u >= 32768 THEN u - 65536 ELSE u

\* the channels are the de-interleaving of the buffer: C channels of F samples
DeinterleavedInto(channels, bytes, C, F) ==
    /\ Len(channels) = C
    /\ \A c \in 1..C :
          /\ Len(channels[c]) = F
          /\ \A j \in 1..F : channels[c][j] = SampleAt(bytes, (j - 1) * C + (c - 1))

\* the first half of C13: with C >= 1 channels and F >= 1 frames
DecodeDeinterleavesFrames ==
    (DecodeSettled /\ decChannels >= 1 /\ Len(pcmBytes) >= 2 * decChannels
        /\ Len(pcmBytes) % (2 * decChannels) = 0) =>
        /\ decodeOutcome = "returns"
        /\ DeinterleavedInto(decoded, pcmBytes, decChannels,
                             Len(pcmBytes) \div (2 * decChannels))

\* C13: decodeAudioData on 2*C*F bytes with C >= 1 returns C channels of F samples,
\* sample j of channel c being the little-endian int16 at interleaved index
\* j*C + c (over 32768); with the channel count 0 it returns the whole buffer as
\* a single channel.
DecodeDeinterleaves ==
    /\ DecodeDeinterleavesFrames
    /\ (DecodeSettled /\ decChannels = 0 /\ Len(pcmBytes) >= 2 /\ Len(pcmBytes) % 2 = 0) =>
          /\ decodeOutcome = "returns"
          /\ DeinterleavedInto(decoded, pcmBytes, 1, Len(pcmBytes) \div 2)

\* three channels of one frame each have been decoded from six bytes
ThreeChannelsDecoded ==
    /\ decodeOutcome = "returns"
    /\ decChannels = 3
    /\ pcmBytes = <<1, 0, 255, 255, 0, 1>>
    /\ decoded = <<(<<1>>), (<<-1>>), (<<256>>)>>

\* C14: decoding invalid or truncated input never throws and produces a
\* zero-length result: decode does not throw on a text that is not valid base64,
\* and decodeAudioData on a buffer whose length is odd or not a multiple of
\* 2 * numChannels returns a buffer of zero frames.
DecodeInvalidGivesEmpty ==
    /\ decodeOutcome # "InvalidCharacterError"
    /\ (DecodeSettled /\ decChannels >= 1 /\ Len(pcmBytes) % (2 * decChannels) # 0) =>
          /\ decodeOutcome = "returns"
          /\ \A c \in 1..Len(decoded) : Len(decoded[c]) = 0

\* the same, for the buffers of even length only: what is returned for a buffer that
\* is not a whole number of frames
DecodePartialFrameGivesEmpty ==
    (DecodeSettled /\ decChannels >= 1 /\ Len(pcmBytes) % 2 = 0
        /\ Len(pcmBytes) % (2 * decChannels) # 0 /\ decodeOutcome = "returns") =>
        \A c \in 1..Len(decoded) : Len(decoded[c]) = 0

\* C15: when a connected session fails or closes unexpectedly, playback becomes
\* stopped (in the engine and in the component) and the error is emitted and shown;
\* a failed or closed session is left only by the next play request, which opens
\* a new one.
TransportErrorStopsNoReconnect ==
    [][/\ (session = "connected" /\ session' \in {"errored", "closed"}) =>
             /\ playbackState' = "stopped"
             /\ pdjPlaybackState' = "stopped"
             /\ toast' = "ConnectionError"
       /\ (session \in {"errored", "closed"} /\ session' # session) =>
             /\ session' = "connecting"
             /\ playbackState = "stopped" /\ playbackState' = "loading"]_vars

\* C15 witness: a session that had delivered audio and was playing has failed;
\* playback is stopped, the error is shown and the session stays failed
ErrorSurfacedAndStopped ==
    /\ session = "errored"
    /\ playbackState = "stopped" /\ pdjPlaybackState = "stopped"
    /\ toast = "ConnectionError"
    /\ regions # <<>>
    /\ now >= 2

\* the frames the loop is to hold, and the samples of the most recent ones
LoopFrames == loopD * recRate

RecentSamples ==
    SubSeq(recPcm, Len(recPcm) - LoopFrames * recChannels + 1, Len(recPcm))

\* the extraction has run on a recording of at least loopD seconds
LoopExtracted ==
    loopOut # NoResult /\ Len(recPcm) \div recChannels >= LoopFrames

\* the PCM payload of the container returned, as int16 samples
LoopPayload ==
    LET bytes == SubSeq(loopOut.blob, 45, Len(loopOut.blob))
    IN  [k \in 1..(Len(bytes) \div 2) |-> SampleAt(bytes, k - 1)]

\* a container is returned whose payload length is that of loopD seconds, to
\* within one sample
LoopLengthExact ==
    /\ loopOut.kind = "blob"
    /\ Len(loopOut.blob) >= 44
    /\ LE32(loopOut.blob, 40) = Len(loopOut.blob) - 44
    /\ Abs((Len(loopOut.blob) - 44) - LoopFrames * recChannels * 2) <= 2

\* C16 as stated: extractLoop(d) on a recording of at least d seconds returns a
\* container whose payload is the most recent d seconds and whose byte length is
\* d * sampleRate * channels * 2 to within one sample.
LoopIsRecentAudio ==
    LoopExtracted => (LoopLengthExact /\ LoopPayload = RecentSamples)

Between(x, a, b) == (a <= x /\ x <= b) \/ (b <= x /\ x <= a)

\* C16 as amended: the payload has the length of d seconds to within one sample
\* and is the most recent d seconds with the seam crossfaded: outside the overlap
\* at the two ends of the window every sample is that of the recording, and a
\* sample of an overlap lies between the recording's sample there and the one at
\* the same place of the other overlap.
LoopIsRecentAudioCrossfaded ==
    LoopExtracted =>
        /\ LoopLengthExact
        /\ Len(LoopPayload) = Len(RecentSamples)
        /\ \A s \in 1..Len(RecentSamples) :
              LET i     == (s - 1) \div recChannels
                  shift == (LoopFrames - CrossfadeFrames) * recChannels
              IN  IF i < CrossfadeFrames
                  THEN Between(LoopPayload[s], RecentSamples[s], RecentSamples[s + shift])
                  ELSE IF i >= LoopFrames - CrossfadeFrames
                  THEN Between(LoopPayload[s], RecentSamples[s], RecentSamples[s - shift])
                  ELSE LoopPayload[s] = RecentSamples[s]

\* C16 witness: a two-second stereo loop has been cut from a recording longer
\* than two seconds
LoopCutFromLongerRecording ==
    /\ LoopExtracted
    /\ loopOut.kind = "blob"
    /\ loopD = 2 /\ recChannels = 2
    /\ Len(recPcm) \div recChannels > LoopFrames

\* the step in which a filtered-prompt signal is handled
FilteredPromptHandled ==
    /\ toast' \in FilterReasons
    /\ <<toast', filteredPrompts'>> # <<toast, filteredPrompts>>

\* C17: handling a filtered-prompt signal adds the key of the rejected prompt to
\* the filtered set (keeping the keys already there) and shows the reason; the
\* text and weight of every prompt stay as they are and nothing is handed to the
\* control channel or pushed to the session.
FilteredPromptOnlySurfaced ==
    [][FilteredPromptHandled =>
          /\ \E text \in SentTexts :
                filteredPrompts' = filteredPrompts \cup {englishToKey(text)}
          /\ prompts' = prompts
          /\ <<latestSnapshot', lastSent', throttleArmed', pushes'>>
                = <<latestSnapshot, lastSent, throttleArmed, pushes>>]_vars

\* C17 witness: two prompts have been rejected, one of them a translated key and
\* one a custom text, and the prompts still carry weights above zero
TwoPromptsFiltered ==
    /\ toast \in FilterReasons
    /\ Cardinality(filteredPrompts) = 2
    /\ \E k \in filteredPrompts : k \in DOMAIN EnglishOf
    /\ \E k \in filteredPrompts : k \in CustomTexts
    /\ \E id \in PromptIds : prompts[id].weight > 0 /\ prompts[id].text \in filteredPrompts

\* C18: a map handed to setWeightedPrompts keeps the texts and weights it had when
\* it was handed over, whatever the component does afterwards; in particular the
\* map handed over at startup still reads as it did then.
SnapshotImmutable ==
    \A id \in DOMAIN startupSnapshot :
        /\ initialPrompts[id].text = startupSnapshot[id].text
        /\ initialPrompts[id].weight = startupSnapshot[id].weight

\* C19: a download request made with an empty recording downloads nothing and
\* shows the noAudioRecorded message; one made with audio recorded downloads
\* exactly one file, prompt-dj-music.wav, holding the entire recording, and shows
\* no message.
FullDownloadOrNoAudio ==
    [][(downloads' # downloads \/ toast' # toast) =>
          IF recording = <<>>
          THEN downloads' = downloads /\ toast' = "noAudioRecorded"
          ELSE /\ toast' = toast
               /\ Len(downloads') = Len(downloads) + 1
               /\ IsPrefix(downloads, downloads')
               /\ downloads'[Len(downloads')].name = "prompt-dj-music.wav"
               /\ downloads'[Len(downloads')].seconds = SumDurations(recording)]_vars

\* C19 witness: a request made before anything was recorded was answered with the
\* message, and a later one downloaded a recording of two chunks
DownloadedAfterNoAudio ==
    /\ toast = "noAudioRecorded"
    /\ Len(downloads) = 1
    /\ downloads[1].name = "prompt-dj-music.wav"
    /\ Len(recording) = 2
    /\ downloads[1].seconds = SumDurations(recording)

\* C20: provided downloadLoop settles, isDownloadingLoop, once set by an accepted
\* request, returns to false, whether the call resolved with a blob, resolved with
\* no blob or rejected; and it is set only while a call is outstanding.
LoopDownloadFinishes ==
    /\ isDownloadingLoop ~> ~isDownloadingLoop
    /\ [](isDownloadingLoop => Len(loopTasks) = 1)

\* C20 witness: one loop has been downloaded, another request has failed, and the
\* loop control is enabled again
LoopControlReleased ==
    /\ ~isDownloadingLoop
    /\ loopTasks = <<>>
    /\ toast = "loopDownloadFailed"
    /\ \E k \in 1..Len(downloads) : downloads[k].name = "prompt-dj-loop.wav"

\* the step in which a play / pause request is handled: the engine's playback
\* state changes, and not by the first chunk of a session turning loading into playing
PlayPauseRequested ==
    /\ playbackState' # playbackState
    /\ ~(playbackState = "loading" /\ playbackState' = "playing")

PassedPromptsInEnglish ==
    \A id \in DOMAIN latestSnapshot :
        latestSnapshot[id].text = keyToEnglish(latestSnapshot[id].text)

\* C23: a cc-message event is dispatched for a delivered MIDI message exactly when
\* the message comes from the input that was active, has data, and the high nibble
\* of its status byte is 0xB; the record then has the low nibble of the status byte
\* as channel (0..15), data[1] as cc and data[2] as value; any other message
\* dispatches nothing, and no message dispatches more than one event.
CcMessageIffActiveControlChange ==
    lastMidi # <<>> =>
        LET m == lastMidi[1]
            qualifies == /\ m.from = m.active
                         /\ m.data # NoData
                         /\ Len(m.data) >= 1
                         /\ m.data[1] \div 16 = 11
        IN  IF qualifies
            THEN /\ Len(lastCc) = 1
                 /\ lastCc[1].channel = m.data[1] - 176
                 /\ lastCc[1].channel \in 0..15
                 /\ lastCc[1].cc = (IF Len(m.data) >= 2 THEN m.data[2] ELSE Undefined)
                 /\ lastCc[1].value = (IF Len(m.data) >= 3 THEN m.data[3] ELSE Undefined)
            ELSE lastCc = <<>>

\* C23 witness: a control change on channel 3 from the active input was dispatched
\* after a control change from the other input had been ignored
CcFromActiveInputDispatched ==
    /\ lastMidi # <<>>
    /\ lastMidi[1].from = lastMidi[1].active
    /\ lastMidi[1].data = <<179, 127, 0>>
    /\ lastCc = <<[cc |-> 127, value |-> 0, channel |-> 3]>>
    /\ Len(midiInputs) = 2

\* C27: once getMidiAccess has succeeded, whenever an input is available the
\* dispatcher's activeMidiInputId is the id of an available input.
ActiveInputIsAvailable ==
    (access /\ Len(midiInputs) > 0) => activeMidiInputId \in ElementsOf(midiInputs)

\* C24: for a style of n >= 3 prompts, the map built by buildInitialPrompts or
\* buildPromptsForStyle has exactly the n ids prompt-0 .. prompt-(n-1); the prompt
\* with index i carries the i-th text of the style and cc = i; exactly 3 prompts
\* have weight 1 and all others weight 0, whatever order the random sort produced.
BuiltPromptsThreeActive ==
    (built # <<>> /\ Len(styleIn) >= 3) =>
        LET n == Len(styleIn)
        IN  /\ DOMAIN built = {PromptIdOf[i] : i \in 1..n}
            /\ Cardinality(DOMAIN built) = n
            /\ \A i \in 1..n :
                  /\ built[PromptIdOf[i]].promptId = PromptIdOf[i]
                  /\ built[PromptIdOf[i]].text = styleIn[i]
                  /\ built[PromptIdOf[i]].cc = i - 1
                  /\ built[PromptIdOf[i]].weight \in {0, 1}
            /\ Cardinality({i \in 1..n : built[PromptIdOf[i]].weight = 1}) = 3

\* C24 witness: a style of five prompts was built with the random sort putting the
\* last prompt among the first three and the first prompt not
BuiltFromFivePrompts ==
    /\ built # <<>>
    /\ Len(styleIn) = 5
    /\ shuffled[1] = 5
    /\ built["prompt-4"].weight = 1
    /\ built["prompt-0"].weight = 0

\* what one setLanguage call from outside has done so far: at most two fetches, the
\* second one for "en" after a failure of another language; one call of
\* setLanguage("en") from the catch block exactly when a language other than "en"
\* failed; nothing further once "en" has failed
FallsBackOnce(call) ==
    /\ Len(call.fetched) <= 2
    /\ call.fallbacks = (IF call.failed # <<>> /\ call.failed[1] # "en" THEN 1 ELSE 0)
    /\ Len(call.fetched) = 2 => call.fetched[1] # "en" /\ call.fetched[2] = "en"
    /\ Cardinality({k \in 1..Len(call.fetched) : call.fetched[k] = "en"}) <= 1
    /\ (\E k \in 1..Len(call.failed) : call.failed[k] = "en") =>
           Settled(call) /\ call.fetched[Len(call.fetched)] = "en"

\* the steps of setLanguage: a call for the active language with translations
\* loaded, from outside or from the catch block, fetches nothing, and any other
\* call fetches once; a failure of "en" changes neither the translations nor the
\* document language and starts no fetch
SetLanguageSteps ==
    /\ Len(langCalls') > Len(langCalls) =>
          LET new == langCalls'[Len(langCalls')]
          IN  /\ new.fetched = (IF docLang = new.lang /\ translations # ""
                                THEN <<>> ELSE <<new.lang>>)
              /\ translations' = translations /\ docLang' = docLang
    /\ \A i \in 1..Len(langCalls) :
          Len(langCalls'[i].failed) > Len(langCalls[i].failed) =>
             /\ translations' = translations
             /\ docLang' = docLang
             /\ langCalls'[i].fetched =
                   (IF langCalls[i].fetching = "en" \/ (docLang = "en" /\ translations # "")
                    THEN langCalls[i].fetched
                    ELSE Append(langCalls[i].fetched, "en"))

\* C25: setLanguage falls back to English on failure and always terminates: a
\* failure of a language other than "en" is followed by exactly one call for "en",
\* a failure of "en" by no further attempt and no change of the translations or
\* the document language, a call for the active language with translations
\* loaded fetches nothing, and every call made is settled again and again.
SetLanguageFallsBackAndTerminates ==
    /\ [](\A i \in 1..Len(langCalls) : FallsBackOnce(langCalls[i]))
    /\ [][SetLanguageSteps]_vars
    /\ []<>(\A i \in 1..Len(langCalls) : Settled(langCalls[i]))

\* C25 witness: a call for zh-CN failed, its fallback to "en" was fetched and
\* failed too, and the call has ended with nothing loaded
FallbackFailedToo ==
    \E i \in 1..Len(langCalls) :
        /\ langCalls[i].failed = <<"zh-CN", "en">>
        /\ langCalls[i].fetched = <<"zh-CN", "en">>
        /\ Settled(langCalls[i])
        /\ translations = ""

\* C29: when the setLanguage call issued last was issued while an earlier call's
\* fetch had not ended, and no fetch failed, then once all calls have settled the
\* translations loaded and the document language are those of the call issued last.
LastIssuedLanguageWins ==
    LET n == Len(langCalls)
    IN  (/\ n >= 2
         /\ langCalls[n].overlapped
         /\ \A i \in 1..n : Settled(langCalls[i]) /\ langCalls[i].failed = <<>>)
        => translations = langCalls[n].lang /\ docLang = langCalls[n].lang

\* C26: after any sequence of playback-state-changed events the analyser is
\* running exactly when the most recent state is playing, the component's
\* playbackState is the most recent state, and the visualizer's draw loop is on
\* only while that state is playing: its flag is set exactly then, and a draw
\* callback that runs in any other state requests no further callback.
AnalyserAndVisualizerFollowState ==
    /\ [](stateEvents # <<>> =>
            LET latest == stateEvents[Len(stateEvents)]
            IN  /\ analyserRunning <=> latest = "playing"
                /\ pdjPlaybackState = latest
                /\ isPlaying <=> pdjPlaybackState = "playing")
    /\ [][(pendingFrames' # pendingFrames /\ stateEvents' = stateEvents
              /\ pdjPlaybackState # "playing")
          => pendingFrames' = pendingFrames - 1]_vars

\* C26 witness: playing, then another state, then playing again, with the analyser
\* running and the draw loop on
AnalyserRunningAfterResume ==
    /\ Len(stateEvents) >= 3
    /\ stateEvents[Len(stateEvents)] = "playing"
    /\ stateEvents[Len(stateEvents) - 1] = "paused"
    /\ stateEvents[Len(stateEvents) - 2] = "playing"
    /\ analyserRunning
    /\ isPlaying
    /\ pdjPlaybackState = "playing"

\* C30: at most one draw callback is pending at any time, for any interleaving of
\* play(), stop() and animation frames.
AtMostOneFramePending == pendingFrames <= 1

\* C28: after updatePromptsFromAnalysis on a non-empty result the prompt map has at
\* most 16 prompts, with ids prompt-0 .. prompt-(k-1) and cc equal to the index,
\* no two prompts have the same text, and no prompt has a text unknown to
\* allPromptsMap.
AnalysisPromptsDistinct ==
    (analysisDone /\ analysisIn # <<>>) =>
        LET k == Cardinality(DOMAIN prompts)
        IN  /\ k <= 16
            /\ DOMAIN prompts = {PromptIdOf[i] : i \in 1..k}
            /\ \A i \in 1..k : /\ prompts[PromptIdOf[i]].cc = i - 1
                               /\ prompts[PromptIdOf[i]].promptId = PromptIdOf[i]
                               /\ prompts[PromptIdOf[i]].text \in ElementsOf(AllPromptTexts)
            /\ \A i, j \in 1..k :
                  prompts[PromptIdOf[i]].text = prompts[PromptIdOf[j]].text => i = j

=============================================================================
